---------------------------- MODULE Spec2Model ----------------------------
(***************************************************************************)
(* Model of the trigger / capture / dispatch / delivery pipeline of        *)
(* Writing Tools (src/Windows_and_Linux): WritingToolApp, the three         *)
(* AI providers of aiprovider.py and the chat session kept by               *)
(* ui/ResponseWindow.py.                                                    *)
(*                                                                          *)
(* Text is a sequence of one-character strings, so that strip(), rstrip()  *)
(* split() and slicing are computed as Python computes them.  Time is      *)
(* counted in tenths of a second.                                          *)
(***************************************************************************)
EXTENDS Integers, Sequences, FiniteSets, TLC

(***************************************************************************)
(* Bounds of the model.                                                    *)
(***************************************************************************)
MaxCalls == 5        \* calls of check_trigger_spam in SpecSpam
MaxCaptures == 2     \* calls of get_selected_text in SpecCapture
MaxChunks == 2       \* calls of replace_text in SpecReplace
MaxTriggers == 3     \* hotkey activations handled in a run of the application
MaxJobs == 2         \* background threads started in a run of the application
MaxWindows == 2      \* response windows created in a run of the application
MaxLoads == 2           \* load_config calls followed on one provider
MaxSessionJobs == 4     \* threads started by the time two windows stop taking follow-ups
MaxToggles == 2         \* toggle_paused calls in a run of the application
MaxIgnored == 2         \* hotkey activations made while the application is paused

(***************************************************************************)
(* Python string primitives.                                               *)
(***************************************************************************)
IsWhitespace(c) == c \in {" ", "\n", "\t"}

RECURSIVE LStrip(_)
LStrip(s) ==
    IF s = <<>> THEN <<>>
    ELSE IF IsWhitespace(Head(s)) THEN LStrip(Tail(s)) ELSE s

RECURSIVE RStrip(_)
RStrip(s) ==
    IF s = <<>> THEN <<>>
    ELSE IF IsWhitespace(s[Len(s)]) THEN RStrip(SubSeq(s, 1, Len(s) - 1)) ELSE s

\* str.strip()
Strip(s) == LStrip(RStrip(s))

\* str.rstrip('\n')
RECURSIVE RStripNewlines(_)
RStripNewlines(s) ==
    IF s = <<>> THEN <<>>
    ELSE IF s[Len(s)] = "\n" THEN RStripNewlines(SubSeq(s, 1, Len(s) - 1)) ELSE s

\* ''.join(s.split())
RECURSIVE JoinSplit(_)
JoinSplit(s) ==
    IF s = <<>> THEN <<>>
    ELSE IF IsWhitespace(Head(s)) THEN JoinSplit(Tail(s))
         ELSE <<Head(s)>> \o JoinSplit(Tail(s))

\* s[:n]
SliceTo(s, n) == SubSeq(s, 1, IF n < Len(s) THEN n ELSE Len(s))

(***************************************************************************)
(* Program constants.                                                      *)
(***************************************************************************)
TRIGGER_WINDOW == 15     \* 1.5 s, in tenths of a second
MAX_TRIGGERS == 3
DefaultSleep == 2        \* get_selected_text(sleep_duration=0.2)
RetrySleep == 5          \* get_selected_text(sleep_duration=0.5)

\* replace_text: error_message = 'ERROR_TEXT_INCOMPATIBLE_WITH_REQUEST'
error_message == <<"E","R","R","O","R","_","T","E","X","T","_","I","N","C","O","M","P","A","T","I","B","L","E","_","W","I","T","H","_","R","E","Q","U","E","S","T">>

(***************************************************************************)
(* State.                                                                  *)
(***************************************************************************)
VARIABLES
    now,                \* time.time(), in tenths of a second
    recent_triggers,    \* WritingToolApp.recent_triggers
    allTriggers,        \* history: every timestamp check_trigger_spam recorded
    lastSpam,           \* history: <<r>> when the last check_trigger_spam returned r
    clipboard,          \* the system clipboard (pyperclip)
    output_queue,       \* WritingToolApp.output_queue
    current_response_window,  \* the attribute of WritingToolApp: None, a window, or deleted
    captures,           \* history: number of get_selected_text calls made
    lastCapture,        \* history: <<r>>, r the record of the last get_selected_text call
    chunks,             \* history: number of replace_text calls made
    lastReplace,        \* history: <<r>>, r the record of the last replace_text call
    provider,           \* which class WritingToolApp.current_provider is
    close_requested,    \* current_provider.close_requested
    hotkey_listener,    \* WritingToolApp.hotkey_listener: running or stopped
    quit,               \* QApplication.quit() has been called
    popup_window,       \* WritingToolApp.popup_window: <<>> or <<the popup>>
    windows,            \* every ResponseWindow created, in order of creation
    jobs,               \* every background thread started, in order of creation
    eventQueue,         \* the queued slot invocations waiting for the main thread
    notices,            \* history: the message boxes shown
    delivered,          \* history: which job's text reached which surface
    lastTrigger,        \* history: <<r>>, r the record of the last on_hotkey_pressed
    suspensions,        \* history: which thread has slept or blocked at which point
    attrs,              \* current_provider: the attribute load_config sets for each setting
    internal_value,     \* current_provider.settings: internal_value of each setting
    client,             \* current_provider.client (model for Gemini): <<>> or <<the handle>>
    loads,              \* history: number of load_config calls made on current_provider
    lastLoad,           \* history: <<r>>, r the record of the last load_config call
    cycles,             \* the clipboard cycles that have saved the clipboard and not restored it
    paused,             \* WritingToolApp.paused
    toggles,            \* history: for every toggle_paused call, the triggers recorded before it
    ignored             \* history: number of hotkey activations on_activate dropped

triggerVars == <<now, recent_triggers, allTriggers, lastSpam>>
captureVars == <<captures, lastCapture>>
replaceVars == <<output_queue, chunks, lastReplace>>

providerVars == <<attrs, internal_value, client, loads, lastLoad>>
pauseVars == <<paused, toggles, ignored>>

appVars == <<provider, close_requested, hotkey_listener, quit, popup_window, windows,
             jobs, eventQueue, notices, delivered, lastTrigger, suspensions, providerVars, cycles,
             pauseVars>>

vars == <<triggerVars, clipboard, current_response_window, captureVars, replaceVars, appVars>>

\* self.paused = False (line 61)
PauseInit ==
    /\ paused = FALSE
    /\ toggles = <<>>
    /\ ignored = 0

\* values of the attribute current_response_window that are not a window
\* (a window is named by its index in windows, 1 or more)
None == 0              \* as __init__ sets it
Absent == -1           \* after delattr

(***************************************************************************)
(* The configuration of a provider: AIProvider.load_config and the         *)
(* after_load of each provider class.  A settings dictionary is a function *)
(* from some of the setting names to values.                               *)
(***************************************************************************)
\* AIProviderSetting.default_value of each setting the class declares
\* (a default of None is stored as '')
ProviderSettings ==
    [Gemini |-> [api_key |-> "", model_name |-> "gemini-2.0-flash"],
     OpenAI |-> [api_key |-> "", api_base |-> "https://api.openai.com/v1",
                 api_organisation |-> "", api_project |-> "",
                 api_model |-> "gpt-4o-mini"],
     Ollama |-> [api_base |-> "http://localhost:11434", api_model |-> "llama3.1:8b",
                 keep_alive |-> "5"]]

\* internal_value of each setting as its constructor leaves it: the
\* default_value argument itself, None included
InternalDefaults ==
    [Gemini |-> [api_key |-> "None", model_name |-> "gemini-2.0-flash"],
     OpenAI |-> [api_key |-> "None", api_base |-> "https://api.openai.com/v1",
                 api_organisation |-> "", api_project |-> "",
                 api_model |-> "gpt-4o-mini"],
     Ollama |-> [api_base |-> "http://localhost:11434", api_model |-> "llama3.1:8b",
                 keep_alive |-> "5"]]

\* the attributes after_load passes to the constructor of the handle
ClientArgs ==
    [Gemini |-> {"api_key", "model_name"},
     OpenAI |-> {"api_key", "api_base", "api_organisation", "api_project"},
     Ollama |-> {"api_base"}]

ConfigValues == {"k1", "k2"}         \* what a stored settings dictionary holds
NoConfig == [s \in {} |-> ""]        \* the empty dictionary
NoClient == <<>>                     \* client = None

\* the settings dictionaries of provider p, and the complete ones
Configs(p) == UNION {[D -> ConfigValues] : D \in SUBSET DOMAIN ProviderSettings[p]}
FullConfigs(p) == [DOMAIN ProviderSettings[p] -> ConfigValues]

\* after_load: the handle made from the attributes
AfterLoad(p, a) == <<[s \in ClientArgs[p] |-> a[s]]>>

\* before_load
BeforeLoad == NoClient

\* a slip: a setting missing from the dictionary keeps the attribute it had
LoadConfigKeepsAttr(p, state, config) ==
    LET a == [s \in DOMAIN ProviderSettings[p] |->
                 IF s \in DOMAIN config THEN config[s]
                 ELSE IF s \in DOMAIN state.attrs THEN state.attrs[s]
                 ELSE ProviderSettings[p][s]]
    IN  [attrs |-> a,
         internal_value |-> [s \in DOMAIN ProviderSettings[p] |->
                               IF s \in DOMAIN config THEN config[s]
                               ELSE state.internal_value[s]],
         client |-> AfterLoad(p, a)]

\* AIProvider.load_config on a provider of class p in the given state
LoadConfig(p, state, config) ==
    LET a == [s \in DOMAIN ProviderSettings[p] |->
                 IF s \in DOMAIN config THEN config[s] ELSE ProviderSettings[p][s]]
    IN  [attrs |-> a,
         internal_value |-> [s \in DOMAIN ProviderSettings[p] |->
                               IF s \in DOMAIN config THEN config[s]
                               ELSE state.internal_value[s]],
         client |-> AfterLoad(p, a)]

\* the provider object as its constructor leaves it
Constructed(p) ==
    [attrs |-> NoConfig, internal_value |-> InternalDefaults[p], client |-> NoClient]

ProviderState == [attrs |-> attrs, internal_value |-> internal_value, client |-> client]

\* the provider after WritingToolApp.__init__ has loaded a configuration file
\* that stores nothing for it
ProviderInit(p) ==
    /\ attrs = LoadConfig(p, Constructed(p), NoConfig).attrs
    /\ internal_value = LoadConfig(p, Constructed(p), NoConfig).internal_value
    /\ client = LoadConfig(p, Constructed(p), NoConfig).client
    /\ loads = 0
    /\ lastLoad = <<>>

\* the part of the state WritingToolApp.__init__ and load_config leave behind
\* when the configured provider is p
AppInit(p) ==
    /\ provider = p
    /\ close_requested = IF p = "Gemini" THEN "False" ELSE "None"
    /\ hotkey_listener = "running"
    /\ quit = FALSE
    /\ popup_window = <<>>
    /\ windows = <<>>
    /\ jobs = <<>>
    /\ eventQueue = <<>>
    /\ notices = {}
    /\ delivered = {}
    /\ lastTrigger = <<>>
    /\ suspensions = {}
    /\ ProviderInit(p)
    /\ cycles = <<>>
    /\ PauseInit

Init ==
    /\ AppInit("Gemini")
    /\ now = 0
    /\ recent_triggers = <<>>
    /\ allTriggers = <<>>
    /\ lastSpam = <<>>
    /\ clipboard = <<"c">>
    /\ output_queue = <<>>
    /\ current_response_window = None
    /\ captures = 0
    /\ lastCapture = <<>>
    /\ chunks = 0
    /\ lastReplace = <<>>

(***************************************************************************)
(* TriggerGuard: WritingToolApp.check_trigger_spam.                        *)
(***************************************************************************)
\* a slip in the comparison: a trigger exactly 1.5 s old is dropped
InWindowStrict(current_time, t) == current_time - t < TRIGGER_WINDOW

\* the comprehension's filter: current_time - t <= self.TRIGGER_WINDOW
InWindow(current_time, t) == current_time - t <= TRIGGER_WINDOW

\* [t for t in triggers if ...]: keeps the order
RECURSIVE FilterTriggers(_, _)
FilterTriggers(triggers, current_time) ==
    IF triggers = <<>> THEN <<>>
    ELSE IF InWindow(current_time, Head(triggers))
         THEN <<Head(triggers)>> \o FilterTriggers(Tail(triggers), current_time)
         ELSE FilterTriggers(Tail(triggers), current_time)

\* the history check_trigger_spam leaves behind
RetainedTriggers(triggers, current_time) ==
    FilterTriggers(Append(triggers, current_time), current_time)

\* the value check_trigger_spam returns
SpamDetected(triggers, current_time) ==
    Len(RetainedTriggers(triggers, current_time)) >= MAX_TRIGGERS

\* one call of check_trigger_spam at time current_time
check_trigger_spam(current_time) ==
    /\ now' = current_time
    /\ recent_triggers' = RetainedTriggers(recent_triggers, current_time)
    /\ lastSpam' = <<SpamDetected(recent_triggers, current_time)>>
    /\ allTriggers' = Append(allTriggers, current_time)

\* the gaps between two triggers the model tries, in tenths of a second
Gaps == {0, 7, 8, 15, 16}

SpamCall ==
    /\ Len(allTriggers) < MaxCalls
    /\ \E gap \in Gaps : check_trigger_spam(now + gap)
    /\ UNCHANGED <<clipboard, current_response_window, captureVars, replaceVars, appVars>>

NextSpam == SpamCall

SpecSpam == Init /\ [][NextSpam]_vars

(***************************************************************************)
(* ClipboardTextCapture: WritingToolApp.get_selected_text.                 *)
(*                                                                         *)
(* fault names the primitive that raises during the call, if any:          *)
(*   backup    pyperclip.paste() of line 330                               *)
(*   clear     pyperclip.copy('') inside clear_clipboard (caught there)    *)
(*   ctrl_c    the keystroke synthesis of press_ctrl_c                     *)
(*   sleep     time.sleep                                                  *)
(*   read      pyperclip.paste() of line 353                               *)
(*   restore   pyperclip.copy(clipboard_backup) of line 356                *)
(* selection is what the foreground application has selected, latency the  *)
(* time it takes to put it on the clipboard after Ctrl+C.                  *)
(***************************************************************************)
CaptureFaults == {"none", "backup", "clear", "ctrl_c", "sleep", "read", "restore"}

\* the clipboard after clear_clipboard(): the failure of copy('') is swallowed
ClearClipboard(clip, fault) == IF fault = "clear" THEN clip ELSE <<>>

\* the clipboard once the foreground application has handled Ctrl+C
AfterCopyKey(clip, selection, latency, sleep_duration) ==
    IF selection # <<>> /\ latency <= sleep_duration THEN selection ELSE clip

\* the whole call: the clipboard it leaves, what it returns, whether it raised
GetSelectedText(clip, selection, latency, sleep_duration, fault) ==
    LET clipboard_backup == clip
        cleared == ClearClipboard(clip, fault)
        copied == AfterCopyKey(cleared, selection, latency, sleep_duration)
    IN  IF fault = "backup"
        THEN [clipboard |-> clip, result |-> <<>>, raised |-> TRUE]
        ELSE IF fault = "ctrl_c"
        THEN [clipboard |-> cleared, result |-> <<>>, raised |-> TRUE]
        ELSE IF fault \in {"sleep", "read", "restore"}
        THEN [clipboard |-> copied, result |-> <<>>, raised |-> TRUE]
        ELSE [clipboard |-> clipboard_backup, result |-> copied, raised |-> FALSE]

Selections == {<<>>, <<" ">>, <<"a">>}
Latencies == {1, 4}
Clips == {<<>>, <<"c">>}

CaptureCall ==
    /\ captures < MaxCaptures
    /\ \E selection \in Selections, latency \in Latencies,
          sleep_duration \in {DefaultSleep, RetrySleep}, fault \in CaptureFaults :
         LET r == GetSelectedText(clipboard, selection, latency, sleep_duration, fault)
         IN  /\ clipboard' = r.clipboard
             /\ lastCapture' = <<[before |-> clipboard, after |-> r.clipboard,
                                  result |-> r.result, raised |-> r.raised,
                                  fault |-> fault, selection |-> selection]>>
    /\ captures' = captures + 1
    /\ UNCHANGED <<triggerVars, current_response_window, replaceVars, appVars>>

\* the user, or another application, puts something else on the clipboard
UserCopies ==
    /\ \E v \in Clips : v # clipboard /\ clipboard' = v
    /\ UNCHANGED <<triggerVars, current_response_window, captureVars, replaceVars, appVars>>

NextCapture == CaptureCall \/ UserCopies

SpecCapture == Init /\ [][NextCapture]_vars

(***************************************************************************)
(* ResponseRouter: WritingToolApp.replace_text.                            *)
(*                                                                         *)
(* fault names the primitive that raises inside the try block, if any:     *)
(*   backup    pyperclip.paste() of line 521                               *)
(*   copy      pyperclip.copy(cleaned_text) of line 523                    *)
(*   keystroke the keystroke synthesis of press_ctrl_v                     *)
(*   restore   pyperclip.copy(clipboard_backup) of line 535                *)
(***************************************************************************)
ReplaceFaults == {"none", "backup", "copy", "keystroke", "restore"}

\* a slip: the buffer is compared without being trimmed
CurrentOutputUntrimmed(queue) == queue

\* current_output = self.output_queue.strip()
CurrentOutput(queue) == Strip(queue)

\* current_output == error_message
IsErrorMessage(current_output) == current_output = error_message

\* a slip: the prefix is compared with the whitespace left in
FormingErrorMessageExact(current_output) ==
    /\ Len(current_output) <= Len(error_message)
    /\ current_output = SliceTo(error_message, Len(current_output))

\* the guard of lines 502-506: the output may still become the error message
FormingErrorMessage(current_output) ==
    /\ Len(current_output) <= Len(error_message)
    /\ LET clean_current == JoinSplit(current_output)
           clean_error == JoinSplit(error_message)
       IN  clean_current = SliceTo(clean_error, Len(clean_current))

\* a slip: the clipboard is not restored after the paste
PasteBranchNoRestore(queue, clip, fault) ==
    LET cleaned_text == RStripNewlines(queue)
    IN  IF fault \in {"backup", "copy"}
        THEN [clipboard |-> clip, writes |-> <<>>, keystrokes |-> <<>>, raised |-> TRUE]
        ELSE [clipboard |-> cleaned_text, writes |-> <<cleaned_text>>,
              keystrokes |-> IF fault = "keystroke" THEN <<>> ELSE <<cleaned_text>>,
              raised |-> fault # "none"]

\* what the paste branch (lines 521-535) does to the clipboard:
\* writes are the values copied to it, keystrokes the clipboard at each Ctrl+V
PasteBranch(queue, clip, fault) ==
    LET clipboard_backup == clip
        cleaned_text == RStripNewlines(queue)
    IN  IF fault \in {"backup", "copy"}
        THEN [clipboard |-> clip, writes |-> <<>>, keystrokes |-> <<>>, raised |-> TRUE]
        ELSE IF fault = "keystroke"
        THEN [clipboard |-> cleaned_text, writes |-> <<cleaned_text>>,
              keystrokes |-> <<>>, raised |-> TRUE]
        ELSE IF fault = "restore"
        THEN [clipboard |-> cleaned_text, writes |-> <<cleaned_text>>,
              keystrokes |-> <<cleaned_text>>, raised |-> TRUE]
        ELSE [clipboard |-> clipboard_backup, writes |-> <<cleaned_text, clipboard_backup>>,
              keystrokes |-> <<cleaned_text>>, raised |-> FALSE]

\* a slip: the delivery is not wrapped in try/except
EscapesUncaught(raised) == raised

\* except Exception of lines 540-541: whether what the try block raised
\* leaves the handler
Escapes(raised) == FALSE

\* the whole handler.  has_window is hasattr(self, 'current_response_window');
\* ResponseWindow (like None) has no append_text, so line 512 raises and the
\* except clause of line 540 ends the handler.
ReplaceText(queue, new_text, has_window, clip, fault) ==
    LET accumulated == queue \o new_text
        current_output == CurrentOutput(accumulated)
        nothing == [output_queue |-> accumulated, clipboard |-> clip, writes |-> <<>>,
                    keystrokes |-> <<>>, notice |-> FALSE, appended |-> FALSE,
                    raised |-> FALSE, escaped |-> FALSE, branch |-> "none"]
    IN  IF new_text = <<>>
        THEN [nothing EXCEPT !.output_queue = queue, !.branch = "no_text"]
        ELSE IF IsErrorMessage(current_output)
        THEN [nothing EXCEPT !.notice = TRUE, !.branch = "incompatible"]
        ELSE IF FormingErrorMessage(current_output)
        THEN [nothing EXCEPT !.branch = "withheld"]
        ELSE IF has_window
        THEN [nothing EXCEPT !.raised = TRUE, !.escaped = Escapes(TRUE),
                             !.branch = "window"]
        ELSE LET p == PasteBranch(accumulated, clip, fault)
             IN  [output_queue |-> IF p.raised THEN accumulated ELSE <<>>,
                  clipboard |-> p.clipboard, writes |-> p.writes,
                  keystrokes |-> p.keystrokes, notice |-> FALSE, appended |-> FALSE,
                  raised |-> p.raised, escaped |-> Escapes(p.raised), branch |-> "paste"]

\* replace_text(new_text) as a step of the program
replace_text(new_text, fault) ==
    LET has_window == current_response_window # Absent
        r == ReplaceText(output_queue, new_text, has_window, clipboard, fault)
    IN  /\ output_queue' = r.output_queue
        /\ clipboard' = r.clipboard
        /\ lastReplace' = <<[new_text |-> new_text, queue_before |-> output_queue,
                             clip_before |-> clipboard, has_window |-> has_window,
                             fault |-> fault, out |-> r]>>

\* the texts SpecReplace hands to replace_text
Chunks ==
    { <<>>, <<" ">>, <<"\n">>, <<"T">>, <<"H", "i">>, <<"H", "i", "\n">>, <<"E", " ", "R">>,
      error_message,
      SubSeq(error_message, 1, Len(error_message) - 1),
      <<" ">> \o error_message \o <<"\n">>,
      SubSeq(error_message, 1, 5) \o <<" ">> \o SubSeq(error_message, 6, Len(error_message)) }

ReplaceCall ==
    /\ chunks < MaxChunks
    /\ \E new_text \in Chunks, fault \in ReplaceFaults : replace_text(new_text, fault)
    /\ chunks' = chunks + 1
    /\ UNCHANGED <<triggerVars, current_response_window, captureVars, appVars>>

\* self.output_queue = "" (on_hotkey_pressed line 258, process_option_thread line 426)
ResetQueue ==
    /\ output_queue # <<>>
    /\ output_queue' = <<>>
    /\ UNCHANGED <<triggerVars, clipboard, current_response_window, captureVars,
                   chunks, lastReplace, appVars>>

\* a replace-mode job is running: process_option has deleted the attribute (line 395)
InitReplace ==
    /\ AppInit("Gemini")
    /\ now = 0
    /\ recent_triggers = <<>>
    /\ allTriggers = <<>>
    /\ lastSpam = <<>>
    /\ clipboard = <<"c">>
    /\ output_queue = <<>>
    /\ current_response_window \in {Absent, None}
    /\ captures = 0
    /\ lastCapture = <<>>
    /\ chunks = 0
    /\ lastReplace = <<>>

NextReplace == ReplaceCall \/ ResetQueue

SpecReplace == InitReplace /\ [][NextReplace]_vars

(***************************************************************************)
(* The application: hotkey, popup, jobs, providers, response windows.      *)
(*                                                                         *)
(* The handlers of the main thread run one at a time, each to completion;  *)
(* a background thread is cut at the points where it reads or writes the   *)
(* state it shares with the main thread.                                   *)
(***************************************************************************)
\* the class of current_provider (create_provider_instance)
Providers == {"Gemini", "OpenAI", "Ollama"}

\* options.json: the open_in_window flag of two buttons and of the Custom entry
OpenInWindow == [Reescrever |-> FALSE, Resumo |-> TRUE, Custom |-> FALSE]
ButtonOptions == {"Reescrever", "Resumo"}

\* option.lower()
Lower == [Reescrever |-> "reescrever", Resumo |-> "resumo", Custom |-> "custom"]

Questions == {<<"q">>}               \* what the user types in the popup
Messages == {<<"f">>}                \* what the user types in a response window
ProviderTexts == {<<>>, <<"r", "\n">>}   \* what the model answers
ErrorKinds == {"generic", "rate"}    \* whether the exception text names a rate limit

\* fixed texts, each held as one symbol
GeminiErrorText == <<"Ocorreu um erro ao processar a resposta.">>
OllamaErrorText == <<"Ocorreu um erro durante o chat do Ollama.">>
FallbackText == <<"Desculpe, ocorreu um erro ao processar sua pergunta.">>

\* the content of a chat turn
Plain(t) == [fmt |-> "plain", option |-> "", text |-> t]
\* a slip: the seed names the option and leaves the selection out
OriginalWithoutText(option, t) == [fmt |-> "original", option |-> Lower[option], text |-> <<>>]

\* f"Texto original para {option.lower()}:\n\n{selected_text}"
Original(option, t) == [fmt |-> "original", option |-> Lower[option], text |-> t]
\* f"{self.option}: {self.selected_text}"
Titled(option, t) == [fmt |-> "titled", option |-> option, text |-> t]

Turn(role, content) == [role |-> role, content |-> content]

\* the request of a follow-up: the messages handed to the provider, and for
\* Gemini the message sent on the chat that was started with them
NoRequest == [messages |-> <<>>, sent |-> <<>>]

\* system_instruction of process_thread, held as one symbol
FollowupInstruction == [fmt |-> "plain", option |-> "", text |-> <<"Você é um assistente de IA útil.">>]

\* gemini_role = "model" if msg["role"] == "assistant" else "user"
GeminiRole(role) == IF role = "assistant" THEN "model" ELSE "user"

\* chat_messages, the history given to start_chat
GeminiMessages(history) ==
    [i \in 1..Len(history) |-> Turn(GeminiRole(history[i].role), history[i].content)]

\* what process_thread hands to the provider for the copy of the history
FollowupRequest(p, history, question) ==
    IF p = "Gemini"
    THEN [messages |-> GeminiMessages(history),
          sent |-> <<Turn("user", Plain(question))>>]
    ELSE [messages |-> <<Turn("system", FollowupInstruction)>> \o history,
          sent |-> <<>>]

\* the surfaces a text is delivered on: a window (its index) or the paste
\* of replace mode
PasteSurface == 0

\* a queued invocation of a slot of the main thread
Event(type, text, window, job, kind) ==
    [type |-> type, text |-> text, window |-> window, job |-> job, kind |-> kind]

\* the condition of lines 377 and 429
Windowed(option, selected_text) ==
    (option = "Custom" /\ Strip(selected_text) = <<>>) \/ OpenInWindow[option]

\* a slip: the thread looks at the flag of the option only
ThreadWindowedByFlag(option, selected_text) ==
    OpenInWindow[option]

\* the condition of line 429, which process_option_thread evaluates on the
\* arguments process_option was given
ThreadWindowed(option, selected_text) ==
    (option = "Custom" /\ Strip(selected_text) = <<>>) \/ OpenInWindow[option]

IsChat(option, selected_text) == option = "Custom" /\ Strip(selected_text) = <<>>

\* a slip: the listener is left running
ExitAppKeepsListening ==
    /\ hotkey_listener' = hotkey_listener
    /\ quit' = TRUE

\* exit_app: stops the listener and quits
ExitApp ==
    /\ hotkey_listener' = "stopped"
    /\ quit' = TRUE

\* AIProvider.cancel() on whichever provider is current
Cancel == close_requested' = "True"

\* the requests a provider has been sent and has not answered
InFlight(j) == jobs[j].pc \in {"t_inflight", "f_inflight"}

HotkeyGaps == {7}

\* on_hotkey_pressed, the slot of hotkey_triggered_signal
on_hotkey_pressed ==
    /\ ~quit
    /\ hotkey_listener = "running"
    /\ Len(allTriggers) < MaxTriggers
    /\ \E gap \in HotkeyGaps :
         LET current_time == now + gap
             spam == SpamDetected(recent_triggers, current_time)
         IN  /\ check_trigger_spam(current_time)
             /\ IF spam
                THEN /\ ExitApp
                     /\ UNCHANGED <<close_requested, output_queue, eventQueue, jobs>>
                ELSE /\ Cancel
                     /\ output_queue' = <<>>
                     /\ eventQueue' = Append(eventQueue, Event("show_popup", <<>>, 0, 0, ""))
                     /\ jobs' = [j \in DOMAIN jobs |->
                                   IF InFlight(j) THEN [jobs[j] EXCEPT !.superseded = TRUE]
                                   ELSE jobs[j]]
                     /\ UNCHANGED <<hotkey_listener, quit>>
             /\ lastTrigger' = <<[spam |-> spam,
                                  close_before |-> IF spam THEN close_requested ELSE "",
                                  queue_before |-> IF spam THEN eventQueue ELSE <<>>,
                                  output_before |-> IF spam THEN output_queue ELSE <<>>]>>
    /\ UNCHANGED <<clipboard, current_response_window, captureVars, providerVars, cycles, pauseVars, chunks, lastReplace,
                   provider, popup_window, windows, notices, delivered, suspensions>>

\* a slip: the listener passes every activation on
NeverDropped(is_paused) == FALSE

\* if self.paused: return
Dropped(is_paused) == is_paused

\* on_activate of start_hotkey_listener and, through hotkey_triggered_signal,
\* the on_hotkey_pressed it triggers
on_activate ==
    IF Dropped(paused)
    THEN /\ ~quit
         /\ hotkey_listener = "running"
         /\ ignored < MaxIgnored
         /\ ignored' = ignored + 1
         /\ UNCHANGED <<triggerVars, clipboard, current_response_window, captureVars,
                        replaceVars, provider, close_requested, hotkey_listener, quit,
                        popup_window, windows, jobs, eventQueue, notices, delivered,
                        lastTrigger, suspensions, providerVars, cycles, paused, toggles>>
    ELSE on_hotkey_pressed

\* toggle_paused, the tray menu entry Pausar / Retomar
toggle_paused ==
    /\ ~quit
    /\ Len(toggles) < MaxToggles
    /\ paused' = ~paused
    /\ toggles' = Append(toggles, Len(allTriggers))
    /\ UNCHANGED <<triggerVars, clipboard, current_response_window, captureVars,
                   replaceVars, provider, close_requested, hotkey_listener, quit,
                   popup_window, windows, jobs, eventQueue, notices, delivered,
                   lastTrigger, suspensions, providerVars, cycles, ignored>>

\* the slot at the head of the main thread's queue
Pending(type) == ~quit /\ eventQueue # <<>> /\ Head(eventQueue).type = type

\* the failures of a capture and of a paste the application is run with
\* (SpecCapture and SpecReplace go through all of them)
PopupFaults == {"none", "ctrl_c"}
PasteFaults == {"none", "keystroke"}

\* a thread sleeping or blocking: in capture (time.sleep of get_selected_text),
\* in paste (time.sleep of replace_text) or in provider (the request).  The
\* slots of the application run on the main thread, the jobs on their own.
Suspension(point, thread) == [point |-> point, thread |-> thread]

\* get_selected_text gets as far as its time.sleep
SleepReached(fault) == fault \notin {"backup", "ctrl_c"}

\* _show_popup: one capture, a second one when the first returned nothing,
\* then the popup; an exception of get_selected_text ends the slot
\* a slip: a capture of blanks is tried again too
RetriesOnBlank(selected_text) == Strip(selected_text) = <<>>

\* if not selected_text (line 273)
Retries(selected_text) == selected_text = <<>>

\* one call of get_selected_text as _show_popup made it
Attempt(sleep_duration, result) == [sleep_duration |-> sleep_duration, result |-> result]

show_popup ==
    /\ Pending("show_popup")
    /\ \E selection \in Selections, latency \in Latencies,
          fault \in PopupFaults, retry_fault \in PopupFaults :
         LET first == GetSelectedText(clipboard, selection, latency, DefaultSleep, fault)
             retried == ~first.raised /\ Retries(first.result)
             second == GetSelectedText(first.clipboard, selection, latency, RetrySleep,
                                       retry_fault)
             last == IF retried THEN second ELSE first
         IN  /\ clipboard' = last.clipboard
             /\ popup_window' = IF last.raised THEN popup_window
                                ELSE <<[selected_text |-> last.result,
                                        attempts |->
                                           IF retried
                                           THEN <<Attempt(DefaultSleep, first.result),
                                                  Attempt(RetrySleep, second.result)>>
                                           ELSE <<Attempt(DefaultSleep, first.result)>>]>>
             /\ suspensions' = IF SleepReached(fault) \/ (retried /\ SleepReached(retry_fault))
                                THEN suspensions \cup {Suspension("capture", "main")}
                                ELSE suspensions
    /\ eventQueue' = Tail(eventQueue)
    /\ UNCHANGED <<triggerVars, current_response_window, captureVars, providerVars, cycles, pauseVars, replaceVars,
                   provider, close_requested, hotkey_listener, quit, windows, jobs,
                   notices, delivered, lastTrigger>>

\* process_option: the window of a windowed option, the attribute, the thread
process_option(option, selected_text, custom_change) ==
    LET w == Len(windows) + 1
        chat == IsChat(option, selected_text)
        windowed == Windowed(option, selected_text)
    IN  /\ Len(jobs) < MaxJobs
        /\ windowed => Len(windows) < MaxWindows
        /\ IF windowed
           THEN /\ windows' = Append(windows,
                      [option |-> IF chat THEN "Chat" ELSE option,
                       selected_text |-> selected_text,
                       chat_history |-> IF chat THEN <<>>
                                        ELSE <<Turn("user", Original(option, selected_text))>>,
                       open |-> TRUE, input_enabled |-> TRUE,
                       initial_reply |-> FALSE, followups |-> 0])
                /\ current_response_window' = w
           ELSE /\ windows' = windows
                /\ current_response_window' = Absent
        /\ jobs' = Append(jobs,
               [kind |-> "option", pc |-> "t_start", option |-> option,
                selected_text |-> selected_text, custom_change |-> custom_change,
                window |-> IF windowed THEN w ELSE 0,
                superseded |-> FALSE, failed |-> FALSE, wrote_session |-> FALSE, caught |-> FALSE, exception |-> <<>>, mode |-> "", request |-> NoRequest, after_reply |-> FALSE])

\* CustomPopupWindow.on_generic_instruction: a button, shown when there is text
on_generic_instruction ==
    /\ ~quit
    /\ popup_window # <<>>
    /\ Strip(popup_window[1].selected_text) # <<>>
    /\ \E option \in ButtonOptions : process_option(option, popup_window[1].selected_text, <<>>)
    /\ popup_window' = <<>>
    /\ UNCHANGED <<triggerVars, clipboard, captureVars, providerVars, cycles, pauseVars, replaceVars, provider,
                   close_requested, hotkey_listener, quit, eventQueue, notices,
                   delivered, lastTrigger,
                   suspensions>>

\* CustomPopupWindow.on_custom_change: the free-form field
on_custom_change ==
    /\ ~quit
    /\ popup_window # <<>>
    /\ \E q \in Questions : process_option("Custom", popup_window[1].selected_text, q)
    /\ popup_window' = <<>>
    /\ UNCHANGED <<triggerVars, clipboard, captureVars, providerVars, cycles, pauseVars, replaceVars, provider,
                   close_requested, hotkey_listener, quit, eventQueue, notices,
                   delivered, lastTrigger,
                   suspensions>>

\* the popup is dismissed without a choice
ClosePopup ==
    /\ ~quit
    /\ popup_window # <<>>
    /\ popup_window' = <<>>
    /\ UNCHANGED <<triggerVars, clipboard, current_response_window, captureVars, providerVars, cycles, pauseVars,
                   replaceVars, provider, close_requested, hotkey_listener, quit,
                   windows, jobs, eventQueue, notices, delivered, lastTrigger,
                   suspensions>>

(***************************************************************************)
(* The background threads.                                                 *)
(***************************************************************************)
\* what the remote model does with a request: it answers text, the request
\* itself raises, or reading the text out of the answer raises
Outcomes ==
    {[result |-> "text", text |-> t, error |-> "generic"] : t \in ProviderTexts}
    \cup {[result |-> r, text |-> <<>>, error |-> k] :
             r \in {"request_fails", "text_fails"}, k \in ErrorKinds}

\* str(e) of the exceptions that reach the except clause of a thread: any
\* error, the quota error of the Gemini API, the attribute missing on None
ExceptionText ==
    [generic |-> <<"500 ", "Internal error">>,
     rate |-> <<"429 ", "Resource has been exhausted", " (e.g. check quota).">>,
     attribute |-> <<"'NoneType' object has no attribute 'chat_history'">>]

\* sub in text
Contains(text, sub) ==
    \E i \in 0..(Len(text) - Len(sub)) : SubSeq(text, i + 1, i + Len(sub)) = sub

RateLimitTitle == "Erro - Limite de Taxa Atingido"

\* the messages of the notices, each fixed part held as one symbol
RateLimitNotice == <<"Ops! ... simplesmente altere para um modelo Gemini ...">>
FollowupRateLimitNotice == <<"Ops! ... altere para um modelo Gemini ...">>
GenericNotice(text) == <<"Ocorreu um erro: ">> \o text

\* a slip: the test the OpenAI-compatible provider makes, used at the thread
RateLimitedAsOpenAI(text) ==
    Contains(text, <<"exceeded">>) \/ Contains(text, <<"rate limit">>)

\* "Resource has been exhausted" in str(e)
RateLimited(text) ==
    Contains(text, <<"Resource has been exhausted">>)

\* the title of the notice the thread's except clause emits
ErrorTitle(error) == IF RateLimited(ExceptionText[error]) THEN RateLimitTitle ELSE "Erro"

\* the title of the notice OpenAICompatibleProvider.get_response emits
OpenAIErrorTitle(error) == IF error = "rate" THEN "Limite de Taxa Atingido" ELSE "Erro"

\* the text one provider makes of the answer
ResponseText(p, text) == IF p = "Gemini" THEN RStripNewlines(text) ELSE Strip(text)

\* get_response of provider p: the slots it queues (emits), what it returns,
\* whether it raises.  has_window is hasattr(self.app, 'current_response_window').
GetResponse(p, outcome, return_response, has_window, j) ==
    LET response_text == ResponseText(p, outcome.text)
        emit == ~return_response /\ ~has_window
        answer == [emits |-> IF emit
                             THEN <<Event("replace_text", response_text, 0, j, "result")>>
                             ELSE <<>>,
                   returned |-> IF emit /\ p = "Gemini" THEN <<>> ELSE response_text,
                   raises |-> FALSE]
    IN  IF outcome.result = "text" THEN answer
        ELSE IF p = "Gemini"
        THEN IF outcome.result = "request_fails"
             THEN [emits |-> <<>>, returned |-> <<>>, raises |-> TRUE]
             ELSE [emits |-> <<Event("replace_text", GeminiErrorText, 0, j, "error")>>,
                   returned |-> <<>>, raises |-> FALSE]
        ELSE IF p = "OpenAI"
        THEN [emits |-> <<Event("show_message", <<>>, 0, j, OpenAIErrorTitle(outcome.error))>>,
              returned |-> <<>>, raises |-> FALSE]
        ELSE [emits |-> <<Event("replace_text", OllamaErrorText, 0, j, "error")>>,
              returned |-> <<>>, raises |-> FALSE]

\* a slip: the except clause only logs
ThreadExceptSilent(error, j) == <<>>

\* the except clause of process_option_thread
ThreadExcept(error, j) ==
    <<Event("show_message",
            IF RateLimited(ExceptionText[error])
            THEN RateLimitNotice ELSE GenericNotice(ExceptionText[error]),
            0, j, ErrorTitle(error)),
      Event("followup_response", FallbackText, 0, j, "error")>>

\* the except clause of process_thread, the thread of a follow-up
FollowupExcept(error, j) ==
    <<Event("show_message",
            IF RateLimited(ExceptionText[error])
            THEN FollowupRateLimitNotice ELSE GenericNotice(ExceptionText[error]),
            0, j, ErrorTitle(error)),
      Event("followup_response", FallbackText, 0, j, "error")>>

\* close_requested once get_response has returned or raised
AfterResponse(p, raises) ==
    IF p = "Gemini" /\ ~raises THEN "False" ELSE close_requested

OptionJob(j, pc) == ~quit /\ j \in DOMAIN jobs /\ jobs[j].kind = "option" /\ jobs[j].pc = pc
FollowupJob(j, pc) == ~quit /\ j \in DOMAIN jobs /\ jobs[j].kind = "followup" /\ jobs[j].pc = pc

\* a slip: only the empty string counts as no selection
NoTextSelectedExact(option, selected_text) ==
    selected_text = <<>> /\ option # "Custom"

\* lines 405-417: selected_text.strip() == '' and the option is not Custom
NoTextSelected(option, selected_text) ==
    Strip(selected_text) = <<>> /\ option # "Custom"

\* process_option_thread up to the call of get_response, and its first line
ThreadStart(j) ==
    /\ OptionJob(j, "t_start")
    /\ IF NoTextSelected(jobs[j].option, jobs[j].selected_text)
       THEN /\ eventQueue' = Append(eventQueue, Event("show_message", <<>>, 0, j, "Erro"))
            /\ jobs' = [jobs EXCEPT ![j].pc = "done"]
            /\ UNCHANGED <<output_queue, close_requested, suspensions>>
       ELSE /\ output_queue' = <<>>
            /\ close_requested' = "False"
            /\ jobs' = [jobs EXCEPT ![j].pc = "t_inflight"]
            /\ suspensions' = suspensions \cup {Suspension("provider", "background")}
            /\ UNCHANGED eventQueue
    /\ UNCHANGED <<triggerVars, clipboard, current_response_window, captureVars, providerVars, cycles, pauseVars, chunks,
                   lastReplace, provider, hotkey_listener, quit, popup_window, windows,
                   notices, delivered, lastTrigger>>

\* the rest of process_option_thread, from the return of get_response on, as
\* one step: the emission inside get_response, the question appended to the
\* history of whichever window the attribute names now (lines 435-439; without
\* a window the access raises), set_text queued on that window (lines 442-449)
ThreadResponse(j) ==
    /\ OptionJob(j, "t_inflight")
    /\ \E outcome \in Outcomes :
         LET windowed == ThreadWindowed(jobs[j].option, jobs[j].selected_text)
             chat == IsChat(jobs[j].option, jobs[j].selected_text)
             w == current_response_window
             r == GetResponse(provider, outcome, windowed, w # Absent, j)
         IN  /\ close_requested' = AfterResponse(provider, r.raises)
             /\ IF r.raises
                THEN /\ eventQueue' = eventQueue \o ThreadExcept(outcome.error, j)
                     /\ UNCHANGED windows
                ELSE IF ~windowed
                THEN /\ eventQueue' = eventQueue \o r.emits
                     /\ UNCHANGED windows
                ELSE IF chat /\ w < 1
                THEN /\ eventQueue' = (eventQueue \o r.emits) \o ThreadExcept("attribute", j)
                     /\ UNCHANGED windows
                ELSE /\ windows' = IF chat
                                   THEN [windows EXCEPT ![w].chat_history =
                                           Append(@, Turn("user", Plain(jobs[j].custom_change)))]
                                   ELSE windows
                     /\ eventQueue' = (eventQueue \o r.emits) \o
                           (IF w # Absent
                            THEN <<Event("set_text", r.returned, w, j, "result")>>
                            ELSE <<>>)
             /\ jobs' = [jobs EXCEPT ![j].pc = "done",
                                     ![j].failed = outcome.result # "text",
                                     ![j].wrote_session = windows' # windows,
                                     ![j].mode = IF windowed THEN "windowed" ELSE "replace",
                                     ![j].caught = r.raises \/ (windowed /\ chat /\ w < 1),
                                     ![j].exception =
                                         IF r.raises THEN ExceptionText[outcome.error]
                                         ELSE IF windowed /\ chat /\ w < 1
                                         THEN ExceptionText.attribute ELSE <<>>]
    /\ UNCHANGED <<triggerVars, clipboard, current_response_window, captureVars, providerVars, cycles, pauseVars,
                   replaceVars, provider, hotkey_listener, quit, popup_window,
                   notices, delivered, lastTrigger,
                   suspensions>>

\* process_thread of process_followup_question up to the request
FollowupStart(j) ==
    /\ FollowupJob(j, "f_start")
    /\ LET w == jobs[j].window
       IN  IF windows[w].chat_history = <<>>
           THEN /\ eventQueue' = Append(eventQueue, Event("show_message", <<>>, 0, j, "Erro"))
                /\ jobs' = [jobs EXCEPT ![j].pc = "done"]
                /\ UNCHANGED <<windows, close_requested, suspensions>>
           ELSE /\ windows' = [windows EXCEPT ![w].chat_history =
                                  Append(@, Turn("user", Plain(jobs[j].custom_change)))]
                /\ close_requested' = IF provider = "Gemini" THEN close_requested ELSE "False"
                /\ jobs' = [jobs EXCEPT ![j].pc = "f_inflight", ![j].wrote_session = TRUE,
                                        ![j].request =
                                            FollowupRequest(provider, windows'[w].chat_history,
                                                            jobs[j].custom_change)]
                /\ suspensions' = suspensions \cup {Suspension("provider", "background")}
                /\ UNCHANGED eventQueue
    /\ UNCHANGED <<triggerVars, clipboard, current_response_window, captureVars, providerVars, cycles, pauseVars,
                   replaceVars, provider, hotkey_listener, quit, popup_window, notices,
                   delivered, lastTrigger>>

\* the answer to a follow-up: Gemini is asked through a chat object and its
\* text is taken as it is, the others through get_response
FollowupAnswer(p, outcome, j) ==
    IF p = "Gemini"
    THEN [emits |-> <<>>, returned |-> outcome.text, raises |-> outcome.result # "text"]
    ELSE GetResponse(p, outcome, TRUE, current_response_window # Absent, j)

\* process_thread from the answer on: the reply is recorded, then signalled
FollowupResponse(j) ==
    /\ FollowupJob(j, "f_inflight")
    /\ \E outcome \in Outcomes :
         LET w == jobs[j].window
             r == FollowupAnswer(provider, outcome, j)
         IN  /\ IF r.raises
                THEN /\ eventQueue' = eventQueue \o FollowupExcept(outcome.error, j)
                     /\ UNCHANGED windows
                ELSE /\ windows' = [windows EXCEPT ![w].chat_history =
                                       Append(@, Turn("assistant", Plain(r.returned)))]
                     /\ eventQueue' = (eventQueue \o r.emits)
                           \o <<Event("followup_response", r.returned, 0, j, "result")>>
             /\ jobs' = [jobs EXCEPT ![j].pc = "done",
                                     ![j].failed = outcome.result # "text",
                                     ![j].wrote_session = @ \/ windows' # windows,
                                     ![j].caught = r.raises,
                                     ![j].exception =
                                         IF r.raises THEN ExceptionText[outcome.error]
                                         ELSE <<>>]
    /\ UNCHANGED <<triggerVars, clipboard, current_response_window, captureVars, providerVars, cycles, pauseVars,
                   replaceVars, provider, close_requested, hotkey_listener, quit,
                   popup_window, notices, delivered, lastTrigger,
                   suspensions>>

(***************************************************************************)
(* The slots of the main thread and the response window.                   *)
(***************************************************************************)
\* output_ready_signal -> replace_text; a paste is a delivery of the job's text
replace_text_slot ==
    /\ Pending("replace_text")
    /\ \E fault \in PasteFaults :
         LET e == Head(eventQueue)
             r == ReplaceText(output_queue, e.text, current_response_window # Absent,
                              clipboard, fault)
         IN  /\ output_queue' = r.output_queue
             /\ clipboard' = r.clipboard
             /\ delivered' = IF r.keystrokes # <<>>
                             THEN delivered \cup {[job |-> e.job, surface |-> PasteSurface,
                                                   kind |-> e.kind]}
                             ELSE delivered
             /\ notices' = IF r.notice
                           THEN notices \cup {[title |-> "Erro", job |-> e.job]}
                           ELSE notices
             /\ suspensions' = IF r.branch = "paste" /\ r.keystrokes # <<>>
                                THEN suspensions \cup {Suspension("paste", "main")}
                                ELSE suspensions
    /\ eventQueue' = Tail(eventQueue)
    /\ UNCHANGED <<triggerVars, current_response_window, captureVars, providerVars, cycles, pauseVars, chunks, lastReplace,
                   provider, close_requested, hotkey_listener, quit, popup_window,
                   windows, jobs, lastTrigger>>

\* ResponseWindow.set_text: the slot ThreadInvokeSetText queued
set_text ==
    /\ Pending("set_text")
    /\ LET e == Head(eventQueue)
           w == e.window
       IN  IF Strip(e.text) = <<>>
           THEN UNCHANGED <<windows, delivered>>
           ELSE /\ windows' = [windows EXCEPT
                      ![w].chat_history =
                          <<Turn("user", Titled(windows[w].option, windows[w].selected_text)),
                            Turn("assistant", Plain(e.text))>>,
                      ![w].input_enabled = TRUE,
                      ![w].initial_reply = TRUE]
                /\ delivered' = delivered \cup {[job |-> e.job, surface |-> w, kind |-> e.kind]}
    /\ eventQueue' = Tail(eventQueue)
    /\ UNCHANGED <<triggerVars, clipboard, current_response_window, captureVars, providerVars, cycles, pauseVars,
                   replaceVars, provider, close_requested, hotkey_listener, quit,
                   popup_window, jobs, notices, lastTrigger,
                   suspensions>>

\* ResponseWindow.handle_followup_response on one window
HandleFollowupResponse(window, response_text) ==
    LET h == window.chat_history
    IN  [window EXCEPT
           !.chat_history = IF response_text # <<>> /\ Len(h) > 0
                               /\ h[Len(h)].role # "assistant"
                            THEN Append(h, Turn("assistant", Plain(response_text)))
                            ELSE h,
           !.input_enabled = TRUE]

\* followup_response_signal: every window ever created is connected to it
handle_followup_response ==
    /\ Pending("followup_response")
    /\ LET e == Head(eventQueue)
       IN  /\ windows' = [w \in DOMAIN windows |-> HandleFollowupResponse(windows[w], e.text)]
           /\ delivered' = IF e.text # <<>>
                           THEN delivered \cup {[job |-> e.job, surface |-> w, kind |-> e.kind] :
                                                   w \in DOMAIN windows}
                           ELSE delivered
    /\ eventQueue' = Tail(eventQueue)
    /\ UNCHANGED <<triggerVars, clipboard, current_response_window, captureVars, providerVars, cycles, pauseVars,
                   replaceVars, provider, close_requested, hotkey_listener, quit,
                   popup_window, jobs, notices, lastTrigger,
                   suspensions>>

\* show_message_signal -> show_message_box
show_message_box ==
    /\ Pending("show_message")
    /\ notices' = notices \cup {[title |-> Head(eventQueue).kind, job |-> Head(eventQueue).job]}
    /\ eventQueue' = Tail(eventQueue)
    /\ UNCHANGED <<triggerVars, clipboard, current_response_window, captureVars, providerVars, cycles, pauseVars,
                   replaceVars, provider, close_requested, hotkey_listener, quit,
                   popup_window, windows, jobs, delivered, lastTrigger,
                   suspensions>>

\* ResponseWindow.send_message and the process_followup_question it calls,
\* while fewer than limit threads have been started
SendMessage(w, limit) ==
    /\ ~quit
    /\ w \in DOMAIN windows
    /\ windows[w].open
    /\ windows[w].input_enabled
    /\ Len(jobs) < limit
    /\ \E message \in Messages :
         /\ windows' = [windows EXCEPT
                ![w].input_enabled = FALSE,
                ![w].chat_history = Append(@, Turn("user", Plain(message))),
                ![w].followups = @ + 1]
         /\ jobs' = Append(jobs,
                [kind |-> "followup", pc |-> "f_start", option |-> windows[w].option,
                 selected_text |-> <<>>, custom_change |-> message, window |-> w,
                 superseded |-> FALSE, failed |-> FALSE, wrote_session |-> FALSE, caught |-> FALSE, exception |-> <<>>, mode |-> "",
                 request |-> NoRequest, after_reply |-> windows[w].initial_reply])
    /\ UNCHANGED <<triggerVars, clipboard, current_response_window, captureVars, providerVars, cycles, pauseVars,
                   replaceVars, provider, close_requested, hotkey_listener, quit,
                   popup_window, eventQueue, notices, delivered, lastTrigger,
                   suspensions>>

send_message(w) == SendMessage(w, MaxJobs)

\* ResponseWindow.closeEvent
closeEvent(w) ==
    /\ ~quit
    /\ w \in DOMAIN windows
    /\ windows[w].open
    /\ windows' = [windows EXCEPT ![w].open = FALSE, ![w].chat_history = <<>>]
    /\ current_response_window' = Absent
    /\ UNCHANGED <<triggerVars, clipboard, captureVars, providerVars, cycles, pauseVars, replaceVars, provider,
                   close_requested, hotkey_listener, quit, popup_window, jobs,
                   eventQueue, notices, delivered, lastTrigger,
                   suspensions>>

\* the application from start-up, with any of the three providers configured
InitApp ==
    /\ \E p \in Providers : AppInit(p)
    /\ now = 0
    /\ recent_triggers = <<>>
    /\ allTriggers = <<>>
    /\ lastSpam = <<>>
    /\ clipboard = <<"c">>
    /\ output_queue = <<>>
    /\ current_response_window = None
    /\ captures = 0
    /\ lastCapture = <<>>
    /\ chunks = 0
    /\ lastReplace = <<>>

Next ==
    \/ on_activate
    \/ show_popup
    \/ on_generic_instruction
    \/ on_custom_change
    \/ ClosePopup
    \/ \E j \in 1..MaxJobs : ThreadStart(j)
    \/ \E j \in 1..MaxJobs : ThreadResponse(j)
    \/ \E j \in 1..MaxJobs : FollowupStart(j)
    \/ \E j \in 1..MaxJobs : FollowupResponse(j)
    \/ replace_text_slot
    \/ set_text
    \/ handle_followup_response
    \/ show_message_box
    \/ \E w \in 1..MaxWindows : send_message(w)
    \/ \E w \in 1..MaxWindows : closeEvent(w)

Spec == InitApp /\ [][Next]_vars

(***************************************************************************)
(* process_option called with any option and any selection, as its         *)
(* signature allows, followed by whatever the job it starts does.          *)
(***************************************************************************)
DispatchOption ==
    /\ ~quit
    /\ \E option \in ButtonOptions \cup {"Custom"}, selected_text \in Selections,
          q \in Questions :
         process_option(option, selected_text, IF option = "Custom" THEN q ELSE <<>>)
    /\ UNCHANGED <<triggerVars, clipboard, captureVars, providerVars, cycles, pauseVars, replaceVars, provider,
                   close_requested, hotkey_listener, quit, popup_window, eventQueue,
                   notices, delivered, lastTrigger,
                   suspensions>>

NextOption ==
    \/ DispatchOption
    \/ \E j \in 1..MaxJobs : ThreadStart(j)
    \/ \E j \in 1..MaxJobs : ThreadResponse(j)
    \/ \E j \in 1..MaxJobs : FollowupStart(j)
    \/ \E j \in 1..MaxJobs : FollowupResponse(j)
    \/ replace_text_slot
    \/ set_text
    \/ handle_followup_response
    \/ show_message_box
    \/ \E w \in 1..MaxWindows : send_message(w)
    \/ \E w \in 1..MaxWindows : closeEvent(w)

SpecOption == InitApp /\ [][NextOption]_vars

(***************************************************************************)
(* The application paused and resumed from the tray menu while the hotkey  *)
(* is pressed and the popups it brings up are shown and closed.            *)
(***************************************************************************)
NextPause ==
    \/ toggle_paused
    \/ on_activate
    \/ show_popup
    \/ ClosePopup

SpecPause == InitApp /\ [][NextPause]_vars

(***************************************************************************)
(* Two response windows side by side, each with its first reply shown:     *)
(* the summary of a selection in the first, the answer to a question asked *)
(* with nothing selected in the second.  The user writes in either window  *)
(* and closes either.                                                      *)
(***************************************************************************)
FinishedJob(option, selected_text, custom_change, window) ==
    [kind |-> "option", pc |-> "done", option |-> option, selected_text |-> selected_text,
     custom_change |-> custom_change, window |-> window, superseded |-> FALSE,
     failed |-> FALSE, wrote_session |-> custom_change # <<>>, caught |-> FALSE,
     exception |-> <<>>, mode |-> "windowed", request |-> NoRequest, after_reply |-> FALSE]

AnsweredWindow(option, selected_text) ==
    [option |-> option, selected_text |-> selected_text,
     chat_history |-> <<Turn("user", Titled(option, selected_text)),
                        Turn("assistant", Plain(<<"r">>))>>,
     open |-> TRUE, input_enabled |-> TRUE, initial_reply |-> TRUE, followups |-> 0]

InitSession ==
    /\ \E p \in Providers : provider = p /\ ProviderInit(p)
    /\ close_requested = "False"
    /\ hotkey_listener = "running"
    /\ quit = FALSE
    /\ popup_window = <<>>
    /\ eventQueue = <<>>
    /\ notices = {}
    /\ cycles = <<>>
    /\ PauseInit
    /\ now = 14
    /\ recent_triggers = <<7, 14>>
    /\ allTriggers = <<7, 14>>
    /\ lastSpam = <<FALSE>>
    /\ clipboard = <<"c">>
    /\ output_queue = <<>>
    /\ current_response_window = 2
    /\ captures = 0
    /\ lastCapture = <<>>
    /\ chunks = 0
    /\ lastReplace = <<>>
    /\ windows = <<AnsweredWindow("Resumo", <<"a">>), AnsweredWindow("Chat", <<>>)>>
    /\ jobs = <<FinishedJob("Resumo", <<"a">>, <<>>, 1), FinishedJob("Custom", <<>>, <<"q">>, 2)>>
    /\ delivered = {[job |-> 1, kind |-> "result", surface |-> 1],
                    [job |-> 2, kind |-> "result", surface |-> 2]}
    /\ lastTrigger = <<[queue_before |-> <<>>, spam |-> FALSE, close_before |-> "",
                        output_before |-> <<>>]>>
    /\ suspensions = {Suspension("provider", "background"), Suspension("capture", "main")}

NextSession ==
    \/ \E w \in 1..MaxWindows : SendMessage(w, MaxSessionJobs)
    \/ \E j \in 1..MaxSessionJobs : FollowupStart(j)
    \/ \E j \in 1..MaxSessionJobs : FollowupResponse(j)
    \/ replace_text_slot
    \/ handle_followup_response
    \/ show_message_box
    \/ \E w \in 1..MaxWindows : closeEvent(w)

SpecSession == InitSession /\ [][NextSession]_vars

(***************************************************************************)
(* One provider object from its construction on: configured at start-up,   *)
(* configured again from the settings window, cancelled.                   *)
(***************************************************************************)
InitProvider ==
    /\ \E p \in Providers :
         /\ provider = p
         /\ close_requested = IF p = "Gemini" THEN "False" ELSE "None"
         /\ attrs = Constructed(p).attrs
         /\ internal_value = Constructed(p).internal_value
         /\ client = Constructed(p).client
    /\ loads = 0
    /\ lastLoad = <<>>
    /\ cycles = <<>>
    /\ PauseInit
    /\ hotkey_listener = "running"
    /\ quit = FALSE
    /\ popup_window = <<>>
    /\ windows = <<>>
    /\ jobs = <<>>
    /\ eventQueue = <<>>
    /\ notices = {}
    /\ delivered = {}
    /\ lastTrigger = <<>>
    /\ suspensions = {}
    /\ now = 0
    /\ recent_triggers = <<>>
    /\ allTriggers = <<>>
    /\ lastSpam = <<>>
    /\ clipboard = <<"c">>
    /\ output_queue = <<>>
    /\ current_response_window = None
    /\ captures = 0
    /\ lastCapture = <<>>
    /\ chunks = 0
    /\ lastReplace = <<>>

\* what is left alone by every method of the provider
ProviderFrame ==
    UNCHANGED <<triggerVars, clipboard, current_response_window, captureVars, replaceVars,
                provider, hotkey_listener, quit, popup_window, windows, jobs, eventQueue,
                notices, delivered, lastTrigger, suspensions, cycles, pauseVars>>

\* load_config(config) on the current provider.  found: whether a handle was
\* in place at the call; replaced: whether one was still in place when
\* after_load made the new one (before_load is called nowhere)
LoadStep(config) ==
    LET next == LoadConfig(provider, ProviderState, config)
    IN  /\ loads < MaxLoads
        /\ attrs' = next.attrs
        /\ internal_value' = next.internal_value
        /\ client' = next.client
        /\ loads' = loads + 1
        /\ lastLoad' = <<[config |-> config, found |-> client # NoClient,
                           replaced |-> client # NoClient]>>
        /\ UNCHANGED close_requested
        /\ ProviderFrame

\* WritingToolApp.__init__, line 86: the dictionary the configuration file
\* stores for the provider, which may lack any of the settings
load_config == \E config \in Configs(provider) : LoadStep(config)

\* SettingsWindow.save_settings with the provider left as it is: save_config
\* stores the value of every setting's widget, load_config reads them back
save_settings == \E config \in FullConfigs(provider) : LoadStep(config)

\* cancel() of the current provider, on its own
cancel ==
    /\ Cancel
    /\ UNCHANGED providerVars
    /\ ProviderFrame

NextProvider == load_config \/ save_settings \/ cancel

SpecProvider == InitProvider /\ [][NextProvider]_vars

(***************************************************************************)
(* The clipboard cycles of the application, each cut at its sleep: one     *)
(* step saves the clipboard and writes it, a later step reads or pastes    *)
(* and restores it.  The slots of WritingToolApp run on the main thread,   *)
(* one at a time; the threads of the jobs run beside it.                   *)
(***************************************************************************)
\* what a replace-mode job hands to output_ready_signal
EmittedTexts == {<<"T">>, <<"H", "i", "\n">>}

\* a slip: get_response hands the text to the call it makes on its own thread
DirectArgumentText(response_text) == response_text

\* the argument of self.app.replace_text(True), the call GeminiProvider makes
\* on the thread of the job: line 492 takes what is not a str as it takes ''
DirectArgument(response_text) == <<>>

Cycle(kind, thread, clipboard_backup, attempt) ==
    [kind |-> kind, thread |-> thread, clipboard_backup |-> clipboard_backup,
     attempt |-> attempt, since |-> chunks]

RemoveAt(seq, i) == SubSeq(seq, 1, i - 1) \o SubSeq(seq, i + 1, Len(seq))

\* the main thread is inside a slot, asleep in a cycle
MainBusy == \E i \in DOMAIN cycles : cycles[i].thread = "main"

\* the show_popup slots waiting
QueuedPopups == Len(SelectSeq(eventQueue, LAMBDA e : e.type = "show_popup"))

\* replace_text(new_text) up to the sleep of line 534: the paste branch saves
\* the clipboard, writes it and presses Ctrl+V; the other branches return
DeliveryBegin(thread, new_text) ==
    LET r == ReplaceText(output_queue, new_text, current_response_window # Absent,
                         clipboard, "none")
    IN  IF r.branch = "paste"
        THEN /\ output_queue' = output_queue \o new_text
             /\ clipboard' = r.keystrokes[1]
             /\ cycles' = Append(cycles, Cycle("delivery", thread, clipboard, 1))
        ELSE /\ output_queue' = r.output_queue
             /\ UNCHANGED <<clipboard, cycles>>

\* on_hotkey_pressed, a slot of the main thread: _show_popup is queued
Trigger ==
    /\ ~MainBusy
    /\ captures + QueuedPopups < MaxCaptures
    /\ Cancel
    /\ output_queue' = <<>>
    /\ eventQueue' = Append(eventQueue, Event("show_popup", <<>>, 0, 0, ""))
    /\ UNCHANGED <<triggerVars, clipboard, current_response_window, captureVars, chunks,
                   lastReplace, provider, hotkey_listener, quit, popup_window, windows,
                   jobs, notices, delivered, lastTrigger, suspensions, providerVars, cycles,
                   pauseVars>>

\* get_response of a replace-mode job, on the thread of the job: the text is
\* queued for replace_text, and GeminiProvider then calls replace_text itself
ProviderEmits ==
    /\ chunks < MaxChunks
    /\ \E text \in EmittedTexts :
         LET response_text == ResponseText(provider, text)
         IN  /\ eventQueue' = Append(eventQueue,
                                     Event("replace_text", response_text, 0, 0, "result"))
             /\ IF provider = "Gemini"
                THEN DeliveryBegin("background", DirectArgument(response_text))
                ELSE UNCHANGED <<output_queue, clipboard, cycles>>
    /\ chunks' = chunks + 1
    /\ close_requested' = "False"
    /\ UNCHANGED <<triggerVars, current_response_window, captureVars, lastReplace, provider,
                   hotkey_listener, quit, popup_window, windows, jobs, notices, delivered,
                   lastTrigger, suspensions, providerVars, pauseVars>>

\* the event loop of the main thread takes the next queued slot: _show_popup
\* starts get_selected_text, replace_text starts a delivery
SlotBegin ==
    /\ ~MainBusy
    /\ eventQueue # <<>>
    /\ LET e == Head(eventQueue)
       IN  IF e.type = "show_popup"
           THEN /\ clipboard' = ClearClipboard(clipboard, "none")
                /\ cycles' = Append(cycles, Cycle("capture", "main", clipboard, 1))
                /\ captures' = captures + 1
                /\ UNCHANGED output_queue
           ELSE /\ DeliveryBegin("main", e.text)
                /\ UNCHANGED captures
    /\ eventQueue' = Tail(eventQueue)
    /\ UNCHANGED <<triggerVars, current_response_window, lastCapture, chunks, lastReplace,
                   provider, close_requested, hotkey_listener, quit, popup_window, windows,
                   jobs, notices, delivered, lastTrigger, suspensions, providerVars, pauseVars>>

\* a cycle wakes from its sleep: get_selected_text reads the clipboard and
\* restores it, and _show_popup starts over once when nothing was read;
\* replace_text restores the clipboard and empties the buffer
CycleEnd ==
    \E i \in DOMAIN cycles :
        LET c == cycles[i]
        IN  /\ IF c.kind = "capture"
               THEN \E selection \in Selections, latency \in Latencies :
                      LET sleep_duration == IF c.attempt = 1 THEN DefaultSleep ELSE RetrySleep
                          selected_text == AfterCopyKey(clipboard, selection, latency,
                                                        sleep_duration)
                      IN  IF Retries(selected_text) /\ c.attempt = 1
                          THEN /\ clipboard' = ClearClipboard(c.clipboard_backup, "none")
                               /\ cycles' = [cycles EXCEPT ![i] =
                                               Cycle("capture", c.thread, c.clipboard_backup, 2)]
                               /\ UNCHANGED <<popup_window, output_queue>>
                          ELSE /\ clipboard' = c.clipboard_backup
                               /\ cycles' = RemoveAt(cycles, i)
                               /\ popup_window' =
                                     <<[selected_text |-> selected_text,
                                        attempts |->
                                           IF c.attempt = 1
                                           THEN <<Attempt(DefaultSleep, selected_text)>>
                                           ELSE <<Attempt(DefaultSleep, <<>>),
                                                  Attempt(RetrySleep, selected_text)>>]>>
                               /\ UNCHANGED output_queue
               ELSE /\ clipboard' = c.clipboard_backup
                    /\ cycles' = RemoveAt(cycles, i)
                    /\ output_queue' = <<>>
                    /\ UNCHANGED popup_window
            /\ UNCHANGED <<triggerVars, current_response_window, captureVars, chunks,
                           lastReplace, provider, close_requested, hotkey_listener, quit,
                           windows, jobs, eventQueue, notices, delivered, lastTrigger,
                           suspensions, providerVars, pauseVars>>

\* a replace-mode job is running: process_option has deleted the attribute
InitClipboard ==
    /\ \E p \in Providers : AppInit(p)
    /\ now = 0
    /\ recent_triggers = <<>>
    /\ allTriggers = <<>>
    /\ lastSpam = <<>>
    /\ clipboard \in {<<>>, <<"c">>}
    /\ output_queue = <<>>
    /\ current_response_window = Absent
    /\ captures = 0
    /\ lastCapture = <<>>
    /\ chunks = 0
    /\ lastReplace = <<>>

NextClipboard == Trigger \/ ProviderEmits \/ SlotBegin \/ CycleEnd

SpecClipboard == InitClipboard /\ [][NextClipboard]_vars



(***************************************************************************)
(* C3: after get_selected_text finishes the clipboard equals its value     *)
(* from before the call, when the call returns and when the copy           *)
(* keystroke, the settle sleep or the clipboard read raises.               *)
(***************************************************************************)
C3_ClipboardRestoredAfterCapture ==
    \A i \in 1..Len(lastCapture) :
        lastCapture[i].fault \in {"none", "ctrl_c", "sleep", "read"} =>
            lastCapture[i].after = lastCapture[i].before

(***************************************************************************)
(* Notions the claims about replace_text are stated with.                  *)
(***************************************************************************)
\* t, whitespace ignored, is a prefix of the sentinel
WsPrefixOfSentinel(t) ==
    \E n \in 0..Len(error_message) : JoinSplit(t) = SubSeq(error_message, 1, n)

\* the accumulated output acc, trimmed, is no longer than the sentinel and is a
\* whitespace-insensitive strict prefix of it
StrictPrefixOfSentinel(acc) ==
    /\ Len(Strip(acc)) <= Len(error_message)
    /\ Strip(acc) # error_message
    /\ WsPrefixOfSentinel(Strip(acc))

\* a replace_text call of replace mode in which no primitive raised
ReplaceModeCall(r) == ~r.has_window /\ r.fault = "none" /\ r.new_text # <<>>

C5_ReleasedWhenPrefixBroken ==
    \A i \in 1..Len(lastReplace) :
        LET r == lastReplace[i]
            acc == r.queue_before \o r.new_text
        IN  ReplaceModeCall(r) =>
                /\ StrictPrefixOfSentinel(acc) =>
                       /\ r.out.writes = <<>>
                       /\ r.out.keystrokes = <<>>
                       /\ r.out.output_queue = acc
                /\ (r.queue_before # <<>> /\ StrictPrefixOfSentinel(r.queue_before)
                      /\ ~StrictPrefixOfSentinel(acc)) =>
                       r.out.keystrokes = <<RStripNewlines(acc)>>

(***************************************************************************)
(* C5 as amended: the withheld text is released in a single paste once     *)
(* further text makes the accumulated output neither a strict prefix of    *)
(* the sentinel nor the sentinel itself; when the further text completes   *)
(* the sentinel, nothing is pasted and the notice is emitted.              *)
(***************************************************************************)
C5_ReleasedUnlessSentinel ==
    \A i \in 1..Len(lastReplace) :
        LET r == lastReplace[i]
            acc == r.queue_before \o r.new_text
        IN  ReplaceModeCall(r) =>
                /\ StrictPrefixOfSentinel(acc) =>
                       /\ r.out.writes = <<>>
                       /\ r.out.keystrokes = <<>>
                       /\ r.out.output_queue = acc
                /\ (r.queue_before # <<>> /\ StrictPrefixOfSentinel(r.queue_before)
                      /\ ~StrictPrefixOfSentinel(acc) /\ Strip(acc) # error_message) =>
                       r.out.keystrokes = <<RStripNewlines(acc)>>
                /\ (r.queue_before # <<>> /\ StrictPrefixOfSentinel(r.queue_before)
                      /\ Strip(acc) = error_message) =>
                       /\ r.out.keystrokes = <<>>
                       /\ r.out.notice

C5_Witness ==
    /\ lastReplace # <<>>
    /\ lastReplace[1].queue_before = <<"E", " ", "R">>
    /\ lastReplace[1].new_text = <<"H", "i">>
    /\ lastReplace[1].out.keystrokes = << <<"E", " ", "R", "H", "i">> >>

(***************************************************************************)
(* C8: in replace mode, a non-empty text T that is not a prefix of the     *)
(* sentinel, arriving on an empty buffer, is written to the clipboard with *)
(* its trailing newlines trimmed, pasted with exactly one keystroke while  *)
(* the clipboard holds it, and the clipboard then holds again what it held *)
(* before the delivery.                                                    *)
(***************************************************************************)
C8_ReplaceDelivery ==
    \A i \in 1..Len(lastReplace) :
        LET r == lastReplace[i]
            T == r.new_text
        IN  (ReplaceModeCall(r) /\ r.queue_before = <<>>
               /\ ~StrictPrefixOfSentinel(T) /\ Strip(T) # error_message) =>
                /\ r.out.writes = <<RStripNewlines(T), r.clip_before>>
                /\ r.out.keystrokes = <<RStripNewlines(T)>>
                /\ r.out.clipboard = r.clip_before

C8_Witness ==
    /\ lastReplace # <<>>
    /\ lastReplace[1].new_text = <<"H", "i", "\n">>
    /\ lastReplace[1].clip_before = <<"c">>
    /\ lastReplace[1].out.keystrokes = << <<"H", "i">> >>
    /\ clipboard = <<"c">>

(***************************************************************************)
(* C9: check_trigger_spam returns true iff at least 3 of the timestamps    *)
(* recorded so far, the current one included, lie within the trailing      *)
(* 1.5 s; and the retained history holds no timestamp older than that.     *)
(***************************************************************************)
TrailingCount == Cardinality({i \in 1..Len(allTriggers) : allTriggers[i] >= now - 15})

C9_SpamIffThreeInWindow ==
    lastSpam # <<>> =>
        /\ lastSpam[1] = (TrailingCount >= 3)
        /\ \A i \in 1..Len(recent_triggers) : recent_triggers[i] >= now - 15

C9_Witness ==
    /\ lastSpam = <<TRUE>>
    /\ Len(allTriggers) > Len(recent_triggers)

(***************************************************************************)
(* Notions the claims about jobs and sessions are stated with.             *)
(***************************************************************************)
\* the roles of a chat history, in insertion order
Roles(h) == [i \in 1..Len(h) |-> h[i].role]

(***************************************************************************)
(* C1: the result of a job whose provider call was in flight when a        *)
(* hotkey trigger arrived is never pasted and never set or appended on a   *)
(* response window.                                                        *)
(***************************************************************************)
C1_SupersededResultNeverDelivered ==
    \A d \in delivered : d.kind = "result" => ~jobs[d.job].superseded

(***************************************************************************)
(* C2: a job of an option with open_in_window = true delivers its result   *)
(* only in its own response window, never by a paste; a job of an option   *)
(* with open_in_window = false and a non-empty selection delivers only by  *)
(* a paste, never into a response window.                                  *)
(***************************************************************************)
C2_DeliveredOnOwnSurface ==
    \A d \in delivered :
        (d.kind = "result" /\ jobs[d.job].kind = "option") =>
            IF OpenInWindow[jobs[d.job].option]
            THEN d.surface = jobs[d.job].window
            ELSE Strip(jobs[d.job].selected_text) # <<>> => d.surface = PasteSurface

(***************************************************************************)
(* C6: in a window seeded with the selection, once the initial reply has   *)
(* been delivered and the user has submitted one follow-up that is not yet *)
(* answered, chat_history holds exactly the three turns user, assistant,   *)
(* user.                                                                   *)
(***************************************************************************)
C6_ThreeTurnsAfterOneFollowup ==
    \A j \in DOMAIN jobs :
        (/\ jobs[j].kind = "followup"
         /\ jobs[j].after_reply
         /\ jobs[j].pc # "done"
         /\ windows[jobs[j].window].open
         /\ windows[jobs[j].window].option # "Chat"
         /\ windows[jobs[j].window].followups = 1) =>
            Roles(windows[jobs[j].window].chat_history) = <<"user", "assistant", "user">>

(***************************************************************************)
(* C7: in the session of a Custom instruction Q given with an empty or     *)
(* whitespace-only selection, once the first reply has been delivered (and *)
(* before any follow-up) the first turn is the user turn Q, and no turn of *)
(* the session is made from the selection.                                 *)
(***************************************************************************)
C7_ChatFirstTurnIsQuestion ==
    \A j \in DOMAIN jobs :
        (/\ jobs[j].kind = "option"
         /\ IsChat(jobs[j].option, jobs[j].selected_text)
         /\ windows[jobs[j].window].open
         /\ windows[jobs[j].window].initial_reply
         /\ windows[jobs[j].window].followups = 0) =>
            LET h == windows[jobs[j].window].chat_history
            IN  /\ h # <<>>
                /\ h[1] = Turn("user", Plain(jobs[j].custom_change))
                /\ \A i \in 1..Len(h) : h[i].content.fmt = "plain"

(***************************************************************************)
(* C10: when on_hotkey_pressed classifies its trigger as spam, the         *)
(* listener is stopped and the application is asked to quit, and the       *)
(* trigger does not cancel the provider, does not clear the output buffer  *)
(* and queues no popup (so no capture, no popup and no dispatch follow).   *)
(***************************************************************************)
C10_SpamShutsDown ==
    (lastTrigger # <<>> /\ lastTrigger[1].spam) =>
        /\ quit
        /\ hotkey_listener = "stopped"
        /\ close_requested = lastTrigger[1].close_before
        /\ output_queue = lastTrigger[1].output_before
        /\ eventQueue = lastTrigger[1].queue_before

C10_Witness ==
    /\ lastTrigger # <<>>
    /\ lastTrigger[1].spam
    /\ quit
    /\ close_requested = "False"
    /\ \E j \in DOMAIN jobs : InFlight(j) /\ ~jobs[j].superseded

(***************************************************************************)
(* Notions the claims about the end of a job are stated with.              *)
(***************************************************************************)
\* a slot queued by job j is still waiting for the main thread
HasPendingEvent(j) == \E i \in 1..Len(eventQueue) : eventQueue[i].job = j

\* a text of job j has been pasted or shown in a window
JobDelivered(j) == \E d \in delivered : d.job = j

\* a notice has been shown for job j
JobFailed(j) == \E n \in notices : n.job = j

\* job j has run to its end and nothing it queued is left to run
JobOver(j) == jobs[j].pc = "done" /\ ~HasPendingEvent(j)

(***************************************************************************)
(* C11: a job that has run to its end, its queued slots included, has      *)
(* delivered a text (pasted, or shown as a turn) or has raised a notice.   *)
(***************************************************************************)
C11_JobEndsDeliveredOrFailed ==
    \A j \in DOMAIN jobs : JobOver(j) => (JobDelivered(j) \/ JobFailed(j))

\* job j asks for a text to show in a window: a windowed option or a follow-up
WindowedRequest(j) ==
    jobs[j].kind = "followup" \/ Windowed(jobs[j].option, jobs[j].selected_text)

\* the fallback message of job j has been shown in window w
FallbackShown(j, w) ==
    \E d \in delivered : d.job = j /\ d.kind = "error" /\ d.surface = w

(***************************************************************************)
(* C12: when the provider fails during a windowed request (initial or      *)
(* follow-up, any provider), then once the job is over the fallback        *)
(* message has been shown in the job's window.                             *)
(***************************************************************************)
C12_FallbackAfterWindowedFailure ==
    \A j \in DOMAIN jobs :
        (jobs[j].failed /\ WindowedRequest(j) /\ JobOver(j)
           /\ windows[jobs[j].window].open) =>
            FallbackShown(j, jobs[j].window)

(***************************************************************************)
(* C13: when a clipboard primitive or the keystroke synthesis raises       *)
(* during get_selected_text, the call does not raise: it returns the empty *)
(* selection, so that _show_popup goes on to show the popup.               *)
(***************************************************************************)
C13_CaptureErrorsContained ==
    \A i \in 1..Len(lastCapture) :
        lastCapture[i].fault \in {"backup", "ctrl_c", "read", "restore"} =>
            /\ ~lastCapture[i].raised
            /\ lastCapture[i].result = <<>>

(***************************************************************************)
(* C14: a job whose selection is empty or whitespace only and whose option *)
(* is not Custom makes no provider request and delivers nothing; when it   *)
(* is over the 'select the text' notice has been emitted (queued or        *)
(* shown), and the application has not been asked to quit.                 *)
(***************************************************************************)
C14_NoSelectionAborts ==
    \A j \in DOMAIN jobs :
        (/\ jobs[j].kind = "option"
         /\ Strip(jobs[j].selected_text) = <<>>
         /\ jobs[j].option # "Custom") =>
            /\ jobs[j].pc \in {"t_start", "done"}
            /\ ~jobs[j].failed
            /\ ~JobDelivered(j)
            /\ ~quit
            /\ jobs[j].pc = "done" =>
                  \/ [title |-> "Erro", job |-> j] \in notices
                  \/ \E i \in 1..Len(eventQueue) :
                        eventQueue[i] = Event("show_message", <<>>, 0, j, "Erro")

C14_Witness ==
    \E j \in DOMAIN jobs :
        /\ jobs[j].kind = "option"
        /\ jobs[j].option = "Resumo"
        /\ jobs[j].selected_text = <<" ">>
        /\ jobs[j].pc = "done"
        /\ [title |-> "Erro", job |-> j] \in notices

(***************************************************************************)
(* C15: no background thread changes the state of a response window (its   *)
(* chat_history included) itself; such changes are made by slots of the    *)
(* main thread only.                                                       *)
(***************************************************************************)
C15_NoSessionWriteOffMainThread ==
    \A j \in DOMAIN jobs : ~jobs[j].wrote_session

(***************************************************************************)
(* C16: neither the sleep of capture, nor the sleep of the paste, nor the  *)
(* provider request ever runs on the main thread.                          *)
(***************************************************************************)
C16_NoSuspensionOnMainThread ==
    \A x \in suspensions : x.thread # "main"

\* the requests in flight for the session of window w
InFlightFor(w) ==
    {j \in DOMAIN jobs : InFlight(j) /\ WindowedRequest(j) /\ jobs[j].window = w}

(***************************************************************************)
(* C17: for each session at most one request, initial or follow-up, is in  *)
(* flight at any time.                                                     *)
(***************************************************************************)
C17_OneRequestPerSession ==
    \A w \in DOMAIN windows : Cardinality(InFlightFor(w)) <= 1

\* a slot of the given type and text queued by job j is waiting
PendingFor(j, type, text) ==
    \E i \in 1..Len(eventQueue) :
        eventQueue[i].job = j /\ eventQueue[i].type = type /\ eventQueue[i].text = text

\* a notice queued by job j is waiting
PendingNotice(j) ==
    \E i \in 1..Len(eventQueue) :
        eventQueue[i].job = j /\ eventQueue[i].type = "show_message"

(***************************************************************************)
(* C18: every exception raised inside the thread of a job (a provider      *)
(* error that reaches it, the missing window of a chat job) is caught      *)
(* there and turned into a notice and a fallback message: both are queued  *)
(* for the main thread, and then shown.                                    *)
(***************************************************************************)
C18_ExceptionsBecomeSignals ==
    \A j \in DOMAIN jobs :
        jobs[j].caught =>
            /\ jobs[j].pc = "done"
            /\ JobFailed(j) \/ PendingNotice(j)
            /\ jobs[j].window >= 1 =>
                  \/ FallbackShown(j, jobs[j].window)
                  \/ PendingFor(j, "followup_response", FallbackText)

C18_Witness ==
    \E j \in DOMAIN jobs :
        /\ jobs[j].caught
        /\ ~jobs[j].failed
        /\ JobOver(j)
        /\ JobFailed(j)
        /\ FallbackShown(j, jobs[j].window)

(***************************************************************************)
(* C19: a provider failure is surfaced as a notice and never as delivered  *)
(* text: no error text is pasted over the selection or put on the          *)
(* clipboard, and once the job of a failed provider call is over a notice  *)
(* for it has been shown.                                                  *)
(***************************************************************************)
C19_FailureIsNoticeNotText ==
    /\ \A d \in delivered : d.surface = PasteSurface => d.kind # "error"
    /\ clipboard \notin {GeminiErrorText, OllamaErrorText}
    /\ \A j \in DOMAIN jobs : (JobOver(j) /\ jobs[j].failed) => JobFailed(j)

(***************************************************************************)
(* C20: a call of get_response in direct-return mode (the call of a        *)
(* windowed option or of a follow-up) pushes nothing to the replace        *)
(* channel, whatever the outcome of the backend call: no replace_text slot *)
(* queued by such a job is ever waiting.                                   *)
(***************************************************************************)
C20_DirectReturnPushesNothing ==
    \A i \in 1..Len(eventQueue) :
        eventQueue[i].type = "replace_text" => ~WindowedRequest(eventQueue[i].job)

(***************************************************************************)
(* C21: load_config may be repeated, and on every call the handle made by  *)
(* the call before has been torn down by the time the new handle is made.  *)
(***************************************************************************)
C21_TornDownBeforeCreated ==
    \A i \in 1..Len(lastLoad) : ~lastLoad[i].replaced

\* the other half of C21: loading the same dictionary twice leaves the
\* provider as loading it once does
C21_SameConfigSameState ==
    \A config \in Configs(provider) :
        LoadConfig(provider, LoadConfig(provider, ProviderState, config), config)
            = LoadConfig(provider, ProviderState, config)

(***************************************************************************)
(* C22: cancel() sets a flag that is consulted around the network call to  *)
(* decide whether the result is stale: when the call of an option job      *)
(* returns while the flag is set, nothing is handed over for delivery.     *)
(***************************************************************************)
C22_CancelledResultIsStale ==
    [][\A j \in DOMAIN jobs :
          (/\ jobs[j].kind = "option"
           /\ jobs[j].pc = "t_inflight"
           /\ jobs'[j].pc = "done"
           /\ close_requested = "True") => eventQueue' = eventQueue]_vars

\* the rest of C22: cancel() changes the flag only, and a second call
\* changes nothing
C22_CancelIdempotent ==
    [][(close_requested' # close_requested /\ UNCHANGED <<providerVars, jobs, eventQueue>>)
          => (close_requested # "True" /\ close_requested' = "True")]_vars

\* the slots a step has queued
Queued == SubSeq(eventQueue', Len(eventQueue) + 1, Len(eventQueue'))

\* the notices and the fallback messages the except clause of a thread queued
NoticesOfExcept == SelectSeq(Queued, LAMBDA x : x.type = "show_message" /\ x.text # <<>>)
FallbacksOfExcept == SelectSeq(Queued, LAMBDA x : x.type = "followup_response" /\ x.kind = "error")

(***************************************************************************)
(* C23: when an exception reaches the except clause of a thread, of an     *)
(* initial request or of a follow-up alike, exactly one notice and exactly *)
(* one fallback message are queued; the notice is the rate-limit notice    *)
(* if and only if the text of the exception contains "Resource has been    *)
(* exhausted", and otherwise it carries the text of the exception.         *)
(***************************************************************************)
C23_ClassifiedAtThreadBoundary ==
    [][\A j \in DOMAIN jobs :
          (~jobs[j].caught /\ jobs'[j].caught) =>
              LET e == jobs'[j].exception
                  quota == Contains(e, <<"Resource has been exhausted">>)
              IN  /\ Len(NoticesOfExcept) = 1
                  /\ Len(FallbacksOfExcept) = 1
                  /\ FallbacksOfExcept[1].text = FallbackText
                  /\ NoticesOfExcept[1].job = j
                  /\ quota <=> NoticesOfExcept[1].kind = RateLimitTitle
                  /\ quota <=> NoticesOfExcept[1].text
                                  \in {RateLimitNotice, FollowupRateLimitNotice}
                  /\ ~quota => /\ NoticesOfExcept[1].kind = "Erro"
                               /\ NoticesOfExcept[1].text = <<"Ocorreu um erro: ">> \o e]_vars

C23_Witness ==
    /\ \E j \in DOMAIN jobs :
         /\ jobs[j].kind = "followup"
         /\ jobs[j].caught
         /\ Contains(jobs[j].exception, <<"Resource has been exhausted">>)
         /\ [title |-> RateLimitTitle, job |-> j] \in notices
    /\ \E j \in DOMAIN jobs :
         /\ jobs[j].kind = "option"
         /\ jobs[j].caught
         /\ ~Contains(jobs[j].exception, <<"Resource has been exhausted">>)
         /\ [title |-> "Erro", job |-> j] \in notices

(***************************************************************************)
(* C24: replace_text called with an empty or all-whitespace string does    *)
(* nothing: the output buffer stays as it was, the clipboard is not        *)
(* written, nothing is pasted, no notice is shown and nothing is raised.   *)
(***************************************************************************)
C24_BlankDeliveryIsNoOp ==
    \A i \in 1..Len(lastReplace) :
        Strip(lastReplace[i].new_text) = <<>> =>
            /\ lastReplace[i].out.output_queue = lastReplace[i].queue_before
            /\ lastReplace[i].out.writes = <<>>
            /\ lastReplace[i].out.keystrokes = <<>>
            /\ ~lastReplace[i].out.notice
            /\ ~lastReplace[i].out.raised

(***************************************************************************)
(* C25: the delivery of a non-empty initial reply to a window appends      *)
(* exactly one assistant turn to its chat_history and leaves every turn    *)
(* already there as it was.                                                *)
(***************************************************************************)
C25_ReplyAppendsOneTurn ==
    [][\A w \in DOMAIN windows :
          (~windows[w].initial_reply /\ windows'[w].initial_reply) =>
              LET before == windows[w].chat_history
                  after == windows'[w].chat_history
              IN  /\ Len(after) = Len(before) + 1
                  /\ SubSeq(after, 1, Len(before)) = before
                  /\ after[Len(after)].role = "assistant"]_vars

(***************************************************************************)
(* C26: after load_config(config), whatever was loaded before, every       *)
(* setting the provider declares is resolved: its attribute is config[s]   *)
(* when s is in config and the declared default of s otherwise.            *)
(***************************************************************************)
C26_SettingsResolved ==
    \A i \in 1..Len(lastLoad) :
        /\ DOMAIN attrs = DOMAIN ProviderSettings[provider]
        /\ \A s \in DOMAIN ProviderSettings[provider] :
              attrs[s] = IF s \in DOMAIN lastLoad[i].config
                         THEN lastLoad[i].config[s]
                         ELSE ProviderSettings[provider][s]

\* a second load_config whose dictionary lacks a setting the first one had
\* and changes another
C26_Witness ==
    /\ loads = 2
    /\ lastLoad # <<>>
    /\ \E s \in DOMAIN ProviderSettings[provider] :
         /\ s \notin DOMAIN lastLoad[1].config
         /\ internal_value[s] \in ConfigValues
         /\ attrs[s] = ProviderSettings[provider][s]
    /\ \E s \in DOMAIN lastLoad[1].config :
         attrs[s] = lastLoad[1].config[s]

(***************************************************************************)
(* C27: a failure of the clipboard or of the paste keystroke during a      *)
(* replace-mode delivery is swallowed inside replace_text: the exception   *)
(* is raised and caught there, nothing leaves the handler, and the         *)
(* application keeps running.                                              *)
(***************************************************************************)
C27_DeliveryFailureSwallowed ==
    \A i \in 1..Len(lastReplace) :
        (lastReplace[i].out.branch = "paste" /\ lastReplace[i].fault # "none") =>
            /\ lastReplace[i].out.raised
            /\ ~lastReplace[i].out.escaped
            /\ ~quit
            /\ hotkey_listener = "running"

\* a delivery that failed has left its text in the buffer, and the next
\* delivery has pasted
C27_Witness ==
    /\ chunks = 2
    /\ current_response_window = Absent
    /\ \E i \in 1..Len(lastReplace) :
         /\ lastReplace[i].queue_before # <<>>
         /\ ~IsErrorMessage(CurrentOutput(lastReplace[i].queue_before))
         /\ ~FormingErrorMessage(CurrentOutput(lastReplace[i].queue_before))
         /\ lastReplace[i].fault = "none"
         /\ lastReplace[i].out.branch = "paste"
         /\ lastReplace[i].out.keystrokes # <<>>
         /\ ~lastReplace[i].out.raised

(***************************************************************************)
(* C28: the clipboard is saved and restored around a replace-mode          *)
(* delivery: when replace_text returns, also after a failed clipboard      *)
(* write or paste keystroke, the clipboard holds what it held at the call. *)
(***************************************************************************)
C28_ClipboardRestoredAfterDelivery ==
    \A i \in 1..Len(lastReplace) :
        lastReplace[i].fault \in {"none", "copy", "keystroke"} =>
            lastReplace[i].out.clipboard = lastReplace[i].clip_before

(***************************************************************************)
(* C29: clipboard cycles are mutually exclusive: between the save and the  *)
(* restore of one capture or delivery no other cycle of the application    *)
(* is open, however triggers and returning jobs interleave.                *)
(***************************************************************************)
C29_ClipboardCyclesExclusive ==
    /\ Len(cycles) <= 1
    /\ \A i \in DOMAIN cycles : cycles[i].thread = "main"

\* a capture is open on the main thread while a job of the Gemini provider
\* has handed over its text and made its own call of replace_text
C29_Witness ==
    /\ provider = "Gemini"
    /\ Len(cycles) = 1
    /\ cycles[1].kind = "capture"
    /\ cycles[1].since < chunks
    /\ \E i \in 1..Len(eventQueue) : eventQueue[i].type = "replace_text"

(***************************************************************************)
(* C30: whenever the output buffer is flushed to the clipboard and pasted, *)
(* it holds only the text the delivering job has just handed over: the     *)
(* buffer was empty when that text arrived, so nothing left by an earlier  *)
(* delivery is pasted with it.                                             *)
(***************************************************************************)
C30_FlushedOnlyOwnOutput ==
    [][\A d \in delivered' \ delivered :
          d.surface = PasteSurface => output_queue = <<>>]_vars

\* the option jobs that were given a response window
WindowedJobs == {j \in DOMAIN jobs : jobs[j].kind = "option" /\ jobs[j].window >= 1}

(***************************************************************************)
(* C31: process_option gives a job a response window if and only if the    *)
(* option is Custom with an empty or whitespace-only selection or the      *)
(* option's open_in_window flag is set, and creates no window otherwise;   *)
(* the thread of the job then asks the provider for a direct return        *)
(* exactly when the job was given a window.                                *)
(***************************************************************************)
C31_ModeSelection ==
    /\ \A j \in DOMAIN jobs :
          jobs[j].kind = "option" =>
              /\ jobs[j].window >= 1 <=>
                    \/ jobs[j].option = "Custom" /\ Strip(jobs[j].selected_text) = <<>>
                    \/ OpenInWindow[jobs[j].option]
              /\ jobs[j].mode = "windowed" => jobs[j].window >= 1
              /\ jobs[j].mode = "replace" => jobs[j].window = 0
    /\ Len(windows) = Cardinality(WindowedJobs)

\* both modes have been selected and requested: a chat job with a blank
\* selection and a replace job
C31_Witness ==
    /\ \E j \in DOMAIN jobs :
         /\ jobs[j].option = "Custom" /\ jobs[j].selected_text = <<" ">>
         /\ jobs[j].mode = "windowed"
    /\ \E j \in DOMAIN jobs :
         /\ jobs[j].option = "Custom" /\ jobs[j].selected_text = <<"a">>
         /\ jobs[j].mode = "replace"

(***************************************************************************)
(* C32: when process_option starts the thread of a windowed job, the       *)
(* session of its window is already seeded: with a selection that is not   *)
(* blank it holds exactly one turn, of role user, made from the selection; *)
(* for a Custom instruction with a blank selection it is empty.            *)
(***************************************************************************)
C32_SeededBeforeThreadStarts ==
    [][Len(jobs') > Len(jobs) =>
          LET job == jobs'[Len(jobs')]
              h == windows'[job.window].chat_history
          IN  (job.kind = "option" /\ job.window >= 1) =>
                  /\ job.pc = "t_start"
                  /\ Len(windows') = Len(windows) + 1
                  /\ Strip(job.selected_text) # <<>> =>
                        /\ Len(h) = 1
                        /\ h[1].role = "user"
                        /\ h[1].content.fmt = "original"
                        /\ h[1].content.text = job.selected_text
                  /\ (job.option = "Custom" /\ Strip(job.selected_text) = <<>>) => h = <<>>]_vars

\* two windowed jobs whose threads have not started: one seeded with the
\* selection, one a chat with a blank selection
C32_Witness ==
    /\ \E j \in DOMAIN jobs :
         /\ jobs[j].pc = "t_start" /\ jobs[j].window >= 1
         /\ jobs[j].selected_text = <<"a">>
         /\ Len(windows[jobs[j].window].chat_history) = 1
    /\ \E j \in DOMAIN jobs :
         /\ jobs[j].pc = "t_start" /\ jobs[j].window >= 1
         /\ jobs[j].option = "Custom" /\ jobs[j].selected_text = <<" ">>
         /\ windows[jobs[j].window].chat_history = <<>>

(***************************************************************************)
(* C33: for one trigger get_selected_text is called at most twice: the     *)
(* second call is made if and only if the first returned the empty string, *)
(* it waits 0.5 s where the first waited 0.2 s, and the popup is given the *)
(* result of the last call, whatever it is.                                *)
(***************************************************************************)
C33_CaptureRetriedOnce ==
    \A i \in 1..Len(popup_window) :
        LET a == popup_window[i].attempts
        IN  /\ Len(a) \in {1, 2}
            /\ a[1].sleep_duration = 2
            /\ Len(a) = 2 <=> a[1].result = <<>>
            /\ Len(a) = 2 => a[2].sleep_duration = 5
            /\ popup_window[i].selected_text = a[Len(a)].result

\* the popups of three triggers: the first capture got blanks and was kept,
\* the second capture got the selection the first had missed, both captures
\* got nothing
C33_Witness ==
    /\ popup_window # <<>>
    /\ \/ /\ Len(popup_window[1].attempts) = 2
          /\ popup_window[1].selected_text = <<"a">>
       \/ /\ Len(popup_window[1].attempts) = 2
          /\ popup_window[1].selected_text = <<>>
    /\ eventQueue = <<>>

(***************************************************************************)
(* C34: in every reachable state the chat_history of every response window *)
(* is either empty or starts with a turn of role user.                     *)
(***************************************************************************)
C34_FirstTurnIsUser ==
    \A w \in DOMAIN windows :
        windows[w].chat_history # <<>> => windows[w].chat_history[1].role = "user"

(***************************************************************************)
(* C35: once closeEvent has run on a response window its chat_history is   *)
(* empty and stays empty, and nothing is rendered in it any more.          *)
(***************************************************************************)
C35_ClosedSessionStaysEmpty ==
    \A w \in DOMAIN windows :
        ~windows[w].open => windows[w].chat_history = <<>>

\* a step never renders a reply in a window that is closed
C35_NothingRenderedAfterClose ==
    [][\A d \in delivered' \ delivered :
          d.surface \in DOMAIN windows => windows[d.surface].open]_vars

(***************************************************************************)
(* C36: the request of a follow-up is built from the session as it is when *)
(* the request is built.  For OpenAI and Ollama it is one system message   *)
(* followed by the turns of the session in their order, with their roles   *)
(* and contents.  For Gemini the chat is started with the turns in their   *)
(* order, an assistant turn given the role model and any other the role    *)
(* user.                                                                   *)
(***************************************************************************)
C36_RequestFollowsSession ==
    [][\A j \in DOMAIN jobs :
          (jobs[j].request = NoRequest /\ jobs'[j].request # NoRequest) =>
             LET h == windows'[jobs[j].window].chat_history
                 m == jobs'[j].request.messages
             IN  IF provider = "Gemini"
                 THEN /\ Len(m) = Len(h)
                      /\ \A i \in 1..Len(h) :
                            /\ m[i].content = h[i].content
                            /\ h[i].role = "assistant" => m[i].role = "model"
                            /\ h[i].role = "user" => m[i].role = "user"
                 ELSE /\ Len(m) = Len(h) + 1
                      /\ m[1].role = "system"
                      /\ \A i \in 1..Len(h) : m[i + 1] = h[i]]_vars

\* how many messages of a request are the user's question
Occurrences(request, question) ==
    Cardinality({i \in 1..Len(request.messages \o request.sent) :
                    (request.messages \o request.sent)[i] = Turn("user", Plain(question))})

\* C36, the question: the first follow-up question asked in a window occurs
\* exactly once in the request built for it
C36_QuestionSentOnce ==
    \A j \in DOMAIN jobs :
        (/\ jobs[j].kind = "followup"
         /\ jobs[j].request # NoRequest
         /\ windows[jobs[j].window].followups = 1)
        => Occurrences(jobs[j].request, jobs[j].custom_change) = 1

(***************************************************************************)
(* C37: the reply or fallback message to a follow-up is rendered only in   *)
(* the response window the follow-up was submitted in: a step renders it   *)
(* in no other open window, and changes neither the chat_history nor the   *)
(* input field of another open window.                                     *)
(***************************************************************************)
C37_ReplyOnlyInOwnWindow ==
    [][(/\ eventQueue # <<>>
        /\ Head(eventQueue).type = "followup_response"
        /\ eventQueue' = Tail(eventQueue)
        /\ Head(eventQueue).job \in DOMAIN jobs
        /\ jobs[Head(eventQueue).job].kind = "followup")
       => \A w \in DOMAIN windows :
             (windows[w].open /\ w # jobs[Head(eventQueue).job].window)
             => /\ windows'[w] = windows[w]
                /\ \A d \in delivered' \ delivered : d.surface # w]_vars

(***************************************************************************)
(* C38: while a windowed job is in flight for the window the attribute     *)
(* current_response_window names, closing another response window leaves   *)
(* the attribute as it is.                                                 *)
(***************************************************************************)
C38_CloseLeavesCurrentWindow ==
    [][\A w \in DOMAIN windows :
          (/\ windows[w].open
           /\ ~windows'[w].open
           /\ current_response_window >= 1
           /\ current_response_window # w
           /\ \E j \in DOMAIN jobs : /\ jobs[j].kind = "option"
                                     /\ jobs[j].pc # "done"
                                     /\ jobs[j].window = current_response_window)
          => current_response_window' = current_response_window]_vars

\* C38, the reply: when the provider answers the latest windowed job and the
\* window created for it is open, the thread queues set_text with the answer
\* on that window
C38_ReplyReachesOpenWindow ==
    [][\A j \in DOMAIN jobs :
          (/\ jobs[j].kind = "option"
           /\ j = Len(jobs)
           /\ jobs[j].window = Len(windows)
           /\ jobs[j].pc = "t_inflight"
           /\ jobs'[j].pc = "done"
           /\ jobs'[j].mode = "windowed"
           /\ ~jobs'[j].failed
           /\ jobs[j].window \in DOMAIN windows
           /\ windows[jobs[j].window].open)
          => \E i \in DOMAIN eventQueue' :
                /\ eventQueue'[i].type = "set_text"
                /\ eventQueue'[i].job = j
                /\ eventQueue'[i].window = jobs[j].window]_vars

(***************************************************************************)
(* C39: while the application is paused no step has the effects of a       *)
(* hotkey activation: no trigger timestamp is recorded, the provider is    *)
(* not cancelled, output_queue is not cleared, no _show_popup is queued    *)
(* (so nothing is captured and no popup shown for it), and the application *)
(* does not quit.                                                          *)
(***************************************************************************)
C39_PausedActivationIgnored ==
    [][paused =>
          /\ UNCHANGED <<triggerVars, lastTrigger, close_requested, output_queue, quit,
                         hotkey_listener>>
          /\ Len(eventQueue') <= Len(eventQueue)]_vars

\* C39, resuming: paused is set exactly after an odd number of toggles, and
\* an activation made when it is not set is never dropped
C39_ToggledTwiceRestores ==
    /\ paused <=> Len(toggles) % 2 = 1
    /\ (toggles = <<>>) => ignored = 0

\* the hotkey was pressed while paused, the application was resumed, and a
\* press after that was recorded and brought up the popup
C39_Witness ==
    /\ Len(toggles) = 2
    /\ ~paused
    /\ ignored >= 1
    /\ Len(allTriggers) > toggles[2]
    /\ toggles[2] = toggles[1]
    /\ popup_window # <<>>

=============================================================================
